---- MODULE Spec2Model ----
(***************************************************************************)
(* Model of the concurrent job orchestration of 404-cli.                   *)
(*                                                                         *)
(* Generator (src/generator.py): generate_all creates one asyncio task per *)
(* prompt, every task runs _process_prompt under the 8-slot process_sem,   *)
(* downloads its image, and calls the generation endpoint under the 1-slot *)
(* request_sem with up to three attempts and exponential backoff.          *)
(*                                                                         *)
(* Time is counted in tenths of a second.  A task is one asyncio task; an  *)
(* action is the code a task runs between two suspension points.           *)
(***************************************************************************)
EXTENDS Integers, Sequences, FiniteSets, TLC

VARIABLES
    prompts,        \* generate_all's argument: the list of prompt URLs
    gpc,            \* position of generate_all
    results,        \* what the gather of line 63 returned (<<>> before)
    task,           \* per created task: the state of its _process_prompt frame
    process_sem,    \* asyncio.Semaphore(8): [value, waiters]
    request_sem,    \* asyncio.Semaphore(1): [value, waiters]
    files,          \* output folder: prompt key -> bytes written (NoFile if none)
    now,            \* the event loop's clock, in ticks
    cc,             \* frame of _create_container (src/commit.py)
    er,             \* frame of ensure_running_container and of the wait it is in
    plane,          \* the calls received by the control plane and the health endpoint
    commitments,    \* _parse_commitments' argument commitments
    round_number,   \* _parse_commitments' argument round_number
    parsed,         \* what _parse_commitments returned
    judge,          \* frame of Judge.judge: its position and the output file
    duel,           \* per created task: the state of Judge._process_prompt
    judge_sem,      \* Judge's request_sem and process_sem
    cli,            \* the command being run and its exit status
    client,         \* a call of TargonClient by name: its input and what it did
    renderer        \* frame of Renderer.render, its tasks and its process_sem

generatorVars == <<prompts, gpc, results, task, process_sem, request_sem, files>>
containerVars == <<now, cc, er, plane>>
resolverVars == <<commitments, round_number, parsed>>

judgeVars == <<judge, duel, judge_sem>>
cliVars == <<cli>>
clientVars == <<client>>
rendererVars == <<renderer>>

\* What no step of Generator touches.
notGenerator == <<containerVars, resolverVars, judgeVars, cliVars, clientVars, rendererVars>>

vars == <<generatorVars, containerVars, resolverVars, judgeVars, cliVars, clientVars, rendererVars>>

(***************************************************************************)
(* Bounds of the model.                                                    *)
(***************************************************************************)
MaxPrompts == 3         \* prompts per batch under Spec (0..MaxPrompts)
WidePrompts == 9        \* prompts per batch under SpecWide (more than 8 slots)

(***************************************************************************)
(* Program constants.                                                      *)
(***************************************************************************)
ProcessSlots == 8       \* asyncio.Semaphore(8)
RequestSlots == 1       \* asyncio.Semaphore(1)
max_attempts == 3
generation_http_backoff_base == 15      \* 1.5 s
generation_http_backoff_max == 100      \* 10.0 s

None == [kind |-> "None"]
NoTask == 0
\* A prompt key without an output file in the output folder.
NoFile == [kind |-> "absent"]

Min(a, b) == IF a <= b THEN a ELSE b

\* The sequences over S of length at most n.
RECURSIVE SeqsUpTo(_, _)
SeqsUpTo(S, n) ==
    IF n = 0 THEN {<<>>}
    ELSE LET shorter == SeqsUpTo(S, n - 1)
         IN  shorter \cup {Append(q, x) : q \in {r \in shorter : Len(r) = n - 1}, x \in S}

RECURSIVE Pow2(_)
Pow2(n) == IF n <= 0 THEN 1 ELSE 2 * Pow2(n - 1)

(***************************************************************************)
(* Prompt URLs.  A URL is the sequence of its "/"-separated segments, and  *)
(* a segment is the sequence of its "."-separated parts.                   *)
(***************************************************************************)
PromptUrl(i) == << <<"cdn">>, <<"prompts">>, <<i, "png">> >>

PromptList(n) == [i \in 1..n |-> PromptUrl(i)]

\* prompt.split("/")[-1].split(".")[0]
PromptKey(prompt) == prompt[Len(prompt)][1]

Units == 1..Len(prompts)

AllKeys == {PromptKey(prompts[u]) : u \in Units}

(***************************************************************************)
(* asyncio.Semaphore.  release() hands the slot to a waiter when there is  *)
(* one and increments the value otherwise; acquire() takes a slot at once  *)
(* when the semaphore is not locked and queues the caller otherwise.       *)
(***************************************************************************)
Semaphore(n) == [value |-> n, waiters |-> {}]

LockedOffByOne(sem) == sem.value < 0
Locked(sem) == sem.value = 0 \/ sem.waiters # {}

SemAcquire(sem, u) ==
    IF Locked(sem)
    THEN [sem EXCEPT !.waiters = @ \cup {u}]
    ELSE [sem EXCEPT !.value = @ - 1]

\* The waiters whose future is still pending: cancelling a task cancels the
\* future it waits on at once, and release() skips futures that are done.
Pending(sem) == {w \in sem.waiters : ~task[w].must_cancel}

\* The waiters release() may wake: NoTask when nothing is released or nobody waits.
WakeAny(sem, releases) ==
    IF releases /\ Pending(sem) # {} THEN Pending(sem) ELSE {NoTask}

\* process_sem's waiters queued in task creation order: FIFO wakes the lowest.
WakeNobody(sem, releases) == {NoTask}
WakeFirst(sem, releases) ==
    IF releases /\ Pending(sem) # {}
    THEN {CHOOSE w \in Pending(sem) : \A x \in Pending(sem) : w <= x}
    ELSE {NoTask}

SemRelease(sem, releases, w) ==
    IF ~releases THEN sem
    ELSE IF w = NoTask THEN [sem EXCEPT !.value = @ + 1]
    ELSE [sem EXCEPT !.waiters = @ \ {w}]

SemCancelWait(sem, u) == [sem EXCEPT !.waiters = @ \ {u}]

(***************************************************************************)
(* The frame of one task.                                                  *)
(*   pc: created | outer_wait | download | inner_wait | request | read |   *)
(*       sleep | done                                                      *)
(*   holds, calls, releases, log, slept are history: the slots the task   *)
(*   holds, the remote calls it issued (one per acquisition of             *)
(*   request_sem), its releases of request_sem, the result of each         *)
(*   finished attempt, and the backoff delays it slept.                    *)
(***************************************************************************)
NewTask ==
    [pc |-> "created", attempt |-> 0, sem_released |-> FALSE,
     must_cancel |-> FALSE, outcome |-> [kind |-> "pending"],
     holds |-> {}, calls |-> 0, releases |-> 0, log |-> <<>>, slept |-> <<>>]

\* The bytes the k-th remote call of task u streams back.
Content(u, k) == [kind |-> "bytes", unit |-> u, call |-> k]

IsDone(t) == t.pc = "done"
AllDone == \A u \in Units : IsDone(task[u])
AllStarted == \A u \in Units : task[u].pc # "created"

IsException(o) == o.kind \in {"HTTPError", "RuntimeError", "CancelledError"}

\* The task was granted process_sem: it enters the block of line 106 and
\* suspends in client.get (line 111).
GrantProcessUnheld(t) == [t EXCEPT !.pc = "download"]
GrantProcess(t) == [t EXCEPT !.pc = "download", !.holds = @ \cup {"process"}]

\* The task was granted request_sem (line 202): it issues the POST of line 209.
GrantRequest(t) ==
    [t EXCEPT !.pc = "request", !.holds = @ \cup {"request"}, !.calls = @ + 1]

\* Line 201-202: a new attempt starts and asks for request_sem.
BeginAttempt(t, granted) ==
    IF granted
    THEN GrantRequest([t EXCEPT !.sem_released = FALSE])
    ELSE [t EXCEPT !.sem_released = FALSE, !.pc = "inner_wait"]

\* Lines 160-163.
BackoffOffByOne(attempt) ==
    Min(generation_http_backoff_base * Pow2(attempt), generation_http_backoff_max)
Backoff(attempt) ==
    Min(generation_http_backoff_base * Pow2(attempt - 1), generation_http_backoff_max)

\* Lines 242-244: the finally of _generate_attempt releases unless line 219 did.
FinallyReleasesAlways(t) == TRUE
FinallyReleases(t) == ~t.sem_released

\* The frame once the finally of _generate_attempt has run.
AfterFinally(t) ==
    IF FinallyReleases(t)
    THEN [t EXCEPT !.holds = @ \ {"request"}, !.releases = @ + 1]
    ELSE t

\* Lines 215-225: the status is successful; request_sem is released and
\* sem_released set before the body is read.
AfterStatusKeepsSlot(t) == [t EXCEPT !.pc = "read"]
AfterStatus(t) ==
    [t EXCEPT !.pc = "read", !.sem_released = TRUE,
              !.holds = @ \ {"request"}, !.releases = @ + 1]

\* Line 158: for attempt in range(max_attempts).
HasNextAttemptOffByOne(attempt) == attempt + 1 <= max_attempts
HasNextAttempt(attempt) == attempt + 1 < max_attempts

\* The task leaves the "async with process_sem" block with this outcome.
ResolveKeepsSlot(t, outcome) == [t EXCEPT !.pc = "done", !.outcome = outcome]
Resolve(t, outcome) ==
    [t EXCEPT !.pc = "done", !.outcome = outcome, !.holds = @ \ {"process"}]

(***************************************************************************)
(* One step of task u: its frame becomes t, it releases request_sem and/or *)
(* process_sem as told (rsem and psem are the semaphores once u has left   *)
(* their queues), and a task woken by a release is granted its slot.       *)
(***************************************************************************)
TaskStep(u, t, rsem, relRequest, psem, relProcess) ==
    \E wr \in WakeAny(rsem, relRequest) :
    \E wp \in WakeFirst(psem, relProcess) :
        /\ request_sem' = SemRelease(rsem, relRequest, wr)
        /\ process_sem' = SemRelease(psem, relProcess, wp)
        /\ task' = [x \in Units |->
                        IF x = u THEN t
                        ELSE IF x = wr THEN GrantRequest(task[x])
                        ELSE IF x = wp THEN GrantProcess(task[x])
                        ELSE task[x]]

\* The task is at this suspension point and no cancellation was requested.
\* The event loop runs the first step of every new task before it dispatches
\* any I/O completion.
At(u, where) ==
    /\ gpc # "start"
    /\ AllStarted
    /\ task[u].pc = where
    /\ ~task[u].must_cancel

\* Line 176: _generate_with_retries returns the first result that is not None.
ReturnsResultNever(result) == FALSE
ReturnsResult(result) == result # None

(***************************************************************************)
(* _generate_attempt of task u (frame t, past its finally) ended with      *)
(* result: lines 176-179 of _generate_with_retries and lines 120-129 of    *)
(* _process_prompt.                                                        *)
(***************************************************************************)
AfterAttempt(u, t, result, relRequest) ==
    LET key == PromptKey(prompts[u])
        logged == [t EXCEPT !.log = Append(@, result.kind)]
    IN  IF ReturnsResult(result)
        THEN /\ TaskStep(u, Resolve(logged, [kind |-> "returned", value |-> None]),
                         request_sem, relRequest, process_sem, TRUE)
             /\ files' = [files EXCEPT ![key] = result]
        ELSE IF HasNextAttempt(t.attempt)
        THEN /\ TaskStep(u, [logged EXCEPT !.pc = "sleep", !.attempt = @ + 1],
                         request_sem, relRequest, process_sem, FALSE)
             /\ UNCHANGED files
        ELSE /\ TaskStep(u, Resolve(logged, [kind |-> "RuntimeError", key |-> key]),
                         request_sem, relRequest, process_sem, TRUE)
             /\ UNCHANGED files

(***************************************************************************)
(* The components before they are called.                                  *)
(***************************************************************************)
NoContainer == [uid |-> "", name |-> "", url |-> ""]
NotReturned == [kind |-> "pending"]
Raised(error) == [kind |-> "raised", error |-> error]

\* _create_container not called yet (line 635: container = None).
ContainerIdle ==
    /\ now = 0
    /\ cc = [pc |-> "idle", container |-> NoContainer, outcome |-> "pending"]
    /\ er = [pc |-> "idle", container |-> NoContainer, start |-> 0, deadline |-> 0,
             time_elapsed |-> 0, healthy |-> "pending", result |-> NotReturned,
             at |-> "idle"]
    /\ plane = [deploys |-> 0, lists |-> 0, health |-> 0, deletes |-> <<>>,
                failed |-> {}, last_health |-> "none"]

\* _parse_commitments not called.
ResolverIdle ==
    /\ commitments = <<>>
    /\ round_number = 0
    /\ parsed = [pc |-> "idle", results |-> <<>>]

\* Judge.judge not called.
JudgeIdle ==
    /\ judge = [pc |-> "idle", prompt_keys |-> <<>>, image_dir_1 |-> {}, image_dir_2 |-> {},
                saved |-> FALSE, output |-> <<>>]
    /\ duel = <<>>
    /\ judge_sem = None

\* No command of the CLI is running.
CliIdle ==
    cli = [command |-> "none", pc |-> "idle", interrupted |-> FALSE, status |-> 0,
           output |-> <<>>]

\* No call of TargonClient by name.
ClientIdle ==
    client = [pc |-> "idle", name |-> "", answer |-> [error |-> FALSE, containers |-> <<>>],
              got |-> NoContainer, deleted |-> <<>>]

\* render not called.
RendererIdle ==
    renderer = [pc |-> "idle", unit |-> <<>>, process_sem |-> [value |-> 0, waiters |-> <<>>]]

\* generate_all not called.
GeneratorIdle ==
    /\ prompts = <<>>
    /\ gpc = "start"
    /\ results = <<>>
    /\ task = <<>>
    /\ process_sem = None
    /\ request_sem = None
    /\ files = <<>>

Init ==
    /\ prompts \in {PromptList(n) : n \in 0..MaxPrompts}
    /\ gpc = "start"
    /\ results = <<>>
    /\ task = <<>>
    /\ process_sem = None
    /\ request_sem = None
    /\ files = [k \in AllKeys |-> NoFile]
    /\ ContainerIdle
    /\ ResolverIdle
    /\ JudgeIdle
    /\ CliIdle
    /\ RendererIdle
    /\ ClientIdle

\* generate_all, lines 46-63: the semaphores and one task per prompt, then gather.
generate_all_create_tasks ==
    /\ gpc = "start"
    /\ gpc' = "gather"
    /\ request_sem' = Semaphore(RequestSlots)
    /\ process_sem' = Semaphore(ProcessSlots)
    /\ task' = [u \in Units |-> NewTask]
    /\ UNCHANGED <<prompts, results, files, notGenerator>>

\* _process_prompt, lines 104-111: the first step of a task, in creation order.
process_prompt_start(u) ==
    /\ gpc # "start"
    /\ task[u].pc = "created"
    /\ ~task[u].must_cancel
    /\ \A v \in Units : v < u => task[v].pc # "created"
    /\ process_sem' = SemAcquire(process_sem, u)
    /\ task' = [task EXCEPT ![u] = IF Locked(process_sem)
                                   THEN [@ EXCEPT !.pc = "outer_wait"]
                                   ELSE GrantProcess(@)]
    /\ UNCHANGED <<prompts, gpc, results, request_sem, files, notGenerator>>

\* Lines 111-119 and 154-202: the image arrives, the first attempt starts.
download_ok(u) ==
    /\ At(u, "download")
    /\ request_sem' = SemAcquire(request_sem, u)
    /\ task' = [task EXCEPT ![u] = BeginAttempt(@, ~Locked(request_sem))]
    /\ UNCHANGED <<prompts, gpc, results, process_sem, files, notGenerator>>

\* Lines 111-112: client.get or raise_for_status raises; the task fails.
download_fail(u) ==
    /\ At(u, "download")
    /\ TaskStep(u, Resolve(task[u], [kind |-> "HTTPError", key |-> PromptKey(prompts[u])]),
                request_sem, FALSE, process_sem, TRUE)
    /\ UNCHANGED <<prompts, gpc, results, files, notGenerator>>

\* Lines 215-225: a successful status; the slot is released, the body is read.
request_ok(u) ==
    /\ At(u, "request")
    /\ TaskStep(u, AfterStatus(task[u]),
                request_sem, AfterStatus(task[u]).sem_released, process_sem, FALSE)
    /\ UNCHANGED <<prompts, gpc, results, files, notGenerator>>

\* Lines 238-244: the POST raises (network error or non-2xx status).
request_fail(u) ==
    /\ At(u, "request")
    /\ AfterAttempt(u, AfterFinally(task[u]), None, FinallyReleases(task[u]))
    /\ UNCHANGED <<prompts, gpc, results, notGenerator>>

\* Lines 225-236: the body is read and returned.
aread_ok(u) ==
    /\ At(u, "read")
    /\ AfterAttempt(u, AfterFinally(task[u]), Content(u, task[u].calls),
                    FinallyReleases(task[u]))
    /\ UNCHANGED <<prompts, gpc, results, notGenerator>>

\* Lines 226-227: what _generate_attempt returns when reading the body raised.
AreadFailPartial(u) == [kind |-> "partial", unit |-> u, call |-> task[u].calls]
AreadFailResult(u) == None

\* Lines 226-227: reading the body raises.
aread_fail(u) ==
    /\ At(u, "read")
    /\ AfterAttempt(u, AfterFinally(task[u]), AreadFailResult(u), FinallyReleases(task[u]))
    /\ UNCHANGED <<prompts, gpc, results, notGenerator>>

\* Lines 167-202: the backoff sleep ends, the next attempt starts.
sleep_done(u) ==
    /\ At(u, "sleep")
    /\ request_sem' = SemAcquire(request_sem, u)
    /\ task' = [task EXCEPT ![u] =
                    BeginAttempt([@ EXCEPT !.slept = Append(@, Backoff(task[u].attempt))],
                                 ~Locked(request_sem))]
    /\ UNCHANGED <<prompts, gpc, results, process_sem, files, notGenerator>>

\* asyncio.gather(*tasks, return_exceptions=...) of line 63.
ReturnExceptionsOff == FALSE
ReturnExceptions == TRUE

\* The list gather hands back: one entry per task, in the order of its arguments.
GatherResultsDropFailures ==
    SelectSeq([u \in Units |-> task[u].outcome], LAMBDA o : ~IsException(o))
GatherResults == [u \in Units |-> task[u].outcome]

\* gather resolves when every task is done; without return_exceptions it raises
\* as soon as one task has raised.
Gather(return_exceptions) ==
    IF ~return_exceptions /\ \E u \in Units : IsException(task[u].outcome)
    THEN [state |-> "raised", results |-> <<>>]
    ELSE IF AllDone
    THEN [state |-> "returned", results |-> GatherResults]
    ELSE [state |-> "pending", results |-> <<>>]

\* Lines 63-69 (and 80-82): the await of gather ends.
gather_return ==
    /\ gpc = "gather"
    /\ LET g == Gather(ReturnExceptions)
       IN  /\ g.state # "pending"
           /\ gpc' = IF g.state = "returned" THEN "returned" ELSE "raised_error"
           /\ results' = g.results
    /\ UNCHANGED <<prompts, task, process_sem, request_sem, files, notGenerator>>

\* Lines 70-75: generate_all is interrupted while it awaits gather; every task
\* that is not done is cancelled.
cancel ==
    /\ gpc = "gather"
    /\ gpc' = "interrupted"
    /\ task' = [u \in Units |->
                    IF IsDone(task[u]) THEN task[u]
                    ELSE [task[u] EXCEPT !.must_cancel = TRUE]]
    /\ UNCHANGED <<prompts, results, process_sem, request_sem, files, notGenerator>>

\* CancelledError is thrown into the task where it is suspended and unwinds
\* _generate_attempt (lines 242-244) and "async with process_sem".
task_cancelled(u) ==
    /\ gpc # "start"
    /\ task[u].must_cancel
    /\ ~IsDone(task[u])
    /\ LET t == task[u]
           inAttempt == t.pc \in {"request", "read"}
           relRequest == inAttempt /\ FinallyReleases(t)
           relProcess == t.pc \notin {"created", "outer_wait"}
           unwound == IF inAttempt THEN AfterFinally(t) ELSE t
       IN  TaskStep(u, Resolve(unwound, [kind |-> "CancelledError", key |-> PromptKey(prompts[u])]),
                    SemCancelWait(request_sem, u), relRequest,
                    SemCancelWait(process_sem, u), relProcess)
    /\ UNCHANGED <<prompts, gpc, results, files, notGenerator>>

\* Lines 77-78: the handler's gather resolves once every task is done.
TasksNotJoined == TRUE
TasksJoined == AllDone

\* Lines 77-79: the handler has awaited the tasks and re-raises.
reraise ==
    /\ gpc = "interrupted"
    /\ TasksJoined
    /\ gpc' = "cancelled"
    /\ UNCHANGED <<prompts, results, task, process_sem, request_sem, files, notGenerator>>

Next ==
    \/ generate_all_create_tasks
    \/ gather_return
    \/ cancel
    \/ reraise
    \/ \E u \in Units : process_prompt_start(u)
    \/ \E u \in Units : download_ok(u)
    \/ \E u \in Units : download_fail(u)
    \/ \E u \in Units : request_ok(u)
    \/ \E u \in Units : request_fail(u)
    \/ \E u \in Units : aread_ok(u)
    \/ \E u \in Units : aread_fail(u)
    \/ \E u \in Units : sleep_done(u)
    \/ \E u \in Units : task_cancelled(u)

Spec == Init /\ [][Next]_vars

(***************************************************************************)
(* A batch of more prompts than process_sem has slots, against a backend   *)
(* that answers every request: the semaphores under full load.             *)
(***************************************************************************)
InitWide ==
    /\ prompts = PromptList(WidePrompts)
    /\ gpc = "start"
    /\ results = <<>>
    /\ task = <<>>
    /\ process_sem = None
    /\ request_sem = None
    /\ files = [k \in AllKeys |-> NoFile]
    /\ ContainerIdle
    /\ ResolverIdle
    /\ JudgeIdle
    /\ CliIdle
    /\ RendererIdle
    /\ ClientIdle

NextWide ==
    \/ generate_all_create_tasks
    \/ gather_return
    \/ \E u \in Units : process_prompt_start(u)
    \/ \E u \in Units : download_ok(u)
    \/ \E u \in Units : request_ok(u)
    \/ \E u \in Units : aread_ok(u)

SpecWide == InitWide /\ [][NextWide]_vars

(***************************************************************************)
(* generate_all without cancellation, under fairness: batches of up to     *)
(* MaxPrompts prompts against a backend that may fail any call, and a      *)
(* batch of WidePrompts prompts (more than process_sem has slots) against  *)
(* a backend that answers every call and serves the image downloads in the *)
(* order they were started.  The event loop runs every callback that is    *)
(* ready and every HTTP call ends, so a step that can be taken is          *)
(* eventually taken.                                                       *)
(***************************************************************************)
InitLive ==
    /\ prompts \in {PromptList(n) : n \in 0..MaxPrompts} \cup {PromptList(WidePrompts)}
    /\ gpc = "start"
    /\ results = <<>>
    /\ task = <<>>
    /\ process_sem = None
    /\ request_sem = None
    /\ files = [k \in AllKeys |-> NoFile]
    /\ ContainerIdle
    /\ ResolverIdle
    /\ JudgeIdle
    /\ CliIdle
    /\ RendererIdle
    /\ ClientIdle

\* The backend fails calls only in the small batches.
MayFail == Len(prompts) <= MaxPrompts

\* In the wide batch the downloads end in the order they were started.
DownloadIsNext(u) ==
    MayFail \/ \A v \in Units : v < u => task[v].pc \notin {"outer_wait", "download"}

NextLive ==
    \/ generate_all_create_tasks
    \/ gather_return
    \/ \E u \in Units : process_prompt_start(u)
    \/ \E u \in Units : download_ok(u) /\ DownloadIsNext(u)
    \/ \E u \in Units : request_ok(u)
    \/ \E u \in Units : aread_ok(u)
    \/ \E u \in Units : sleep_done(u)
    \/ MayFail /\ \E u \in Units : download_fail(u)
    \/ MayFail /\ \E u \in Units : request_fail(u)
    \/ MayFail /\ \E u \in Units : aread_fail(u)

SpecLive == InitLive /\ [][NextLive]_vars /\ WF_vars(NextLive)

(***************************************************************************)
(* Batches whose prompt URLs may share their last segment's stem, or be    *)
(* listed twice.                                                           *)
(***************************************************************************)
MaxSameStem == 2        \* prompts per batch under SpecAnyPrompts

\* A URL with the file name of PromptUrl(i) in another folder.
MirrorUrl(i) == << <<"cdn">>, <<"mirror">>, <<i, "png">> >>

InitAnyPrompts ==
    /\ prompts \in SeqsUpTo({PromptUrl(1), MirrorUrl(1), PromptUrl(2)}, MaxSameStem)
    /\ gpc = "start"
    /\ results = <<>>
    /\ task = <<>>
    /\ process_sem = None
    /\ request_sem = None
    /\ files = [k \in AllKeys |-> NoFile]
    /\ ContainerIdle
    /\ ResolverIdle
    /\ JudgeIdle
    /\ CliIdle
    /\ RendererIdle
    /\ ClientIdle

SpecAnyPrompts == InitAnyPrompts /\ [][Next]_vars

(***************************************************************************)
(* Container readiness (src/targon_utils.py, src/targon_client.py) under   *)
(* _create_container (src/commit.py).  One tick of the clock is one        *)
(* check_interval at the bounds below; a remote call takes 0..MaxCallTime  *)
(* ticks and asyncio.sleep(check_interval) takes check_interval ticks.     *)
(***************************************************************************)
deploy_timeout == 2     \* ensure_running_container's deploy_timeout, in ticks
warmup_timeout == 3     \* ensure_running_container's warmup_timeout, in ticks
check_interval == 1     \* ensure_running_container's check_interval, in ticks
MaxCallTime == 1        \* longest remote call, in ticks
MaxHealthPolls == 5     \* health polls answered in one run
MaxListed == 2          \* containers in one answer of the control plane

ContainerName == "pod"

CallTimes == 0..MaxCallTime

\* The items the control plane may list.
ListedItems ==
    {[uid |-> "uid-1", name |-> ContainerName, url |-> ""],
     [uid |-> "uid-1", name |-> ContainerName, url |-> "https://uid-1"],
     [uid |-> "uid-2", name |-> ContainerName, url |-> "https://uid-2"],
     [uid |-> "uid-3", name |-> "other", url |-> "https://uid-3"]}

\* What async_serverless.list_container may answer: a list, or an error.
ListAnswers ==
    {[error |-> FALSE, containers |-> q] : q \in SeqsUpTo(ListedItems, MaxListed)}
        \cup {[error |-> TRUE, containers |-> <<>>]}

\* What the health endpoint may answer to one GET.
HealthAnswers == {"200", "204", "503", "ConnectError"}

\* TargonClient.list_containers(name=name), lines 69-73: "if name:" filters
\* only for a non-empty name.
ListContainers(listed, name) ==
    IF name # "" THEN SelectSeq(listed, LAMBDA c : c.name = name) ELSE listed

\* TargonClient.get_container, lines 80-81.
GetContainer(listed, name) ==
    LET containers == ListContainers(listed, name)
    IN  IF containers # <<>> THEN containers[1] ELSE NoContainer

\* wait_for_visible, line 37: container and container.url.
IsVisibleAnyUrl(container) == container # NoContainer
IsVisible(container) == container # NoContainer /\ container.url # ""

\* The loop tests of lines 35 and 69: time_elapsed < timeout.
WaitGoesOnShort(time_elapsed, timeout) == time_elapsed + check_interval < timeout
WaitGoesOn(time_elapsed, timeout) == time_elapsed < timeout

\* wait_for_healthy, lines 72-75: the answer ends the wait with True.
IsHealthy(answer) == answer = "200"

\* wait_for_healthy, lines 72 and 76-78: raise_for_status or the GET raised.
PollFailed(answer) == answer \in {"503", "ConnectError"}

\* TargonClient.delete_container, lines 117-120, as ensure_running_container and
\* _create_container call it (raise_on_failure=False).
raise_on_failure_set == TRUE
raise_on_failure == FALSE

\* ensure_running_container, lines 105-109: what follows the deploy call.
AfterDeployKeepsGoing(ok) == "wait_for_visible"
AfterDeploy(ok) == IF ok THEN "wait_for_visible" ELSE "return_none"

\* ensure_running_container returns result to line 646 of _create_container,
\* which runs on to line 653 (a container) or raises at line 658 (None).
EnsureReturns(frame, result) ==
    /\ er' = [frame EXCEPT !.pc = "returned", !.result = result]
    /\ cc' = IF result = None
             THEN [cc EXCEPT !.pc = "raised", !.outcome = "RuntimeError"]
             ELSE [cc EXCEPT !.pc = "have_container", !.container = result]

\* An exception other than an interrupt leaves ensure_running_container and
\* _create_container (line 659 catches interrupts only).
EnsureRaises(frame, error) ==
    /\ er' = [frame EXCEPT !.pc = "raised", !.result = Raised(error)]
    /\ cc' = [cc EXCEPT !.pc = "raised", !.outcome = error]

\* Lines 31-36: wait_for_visible starts at time t and sends its first poll.
BeginVisibleWait(frame, t) ==
    [frame EXCEPT !.start = t, !.deadline = t + deploy_timeout, !.time_elapsed = 0,
                  !.pc = IF WaitGoesOn(0, deploy_timeout) THEN "list" ELSE "not_visible"]

\* Lines 66-71: wait_for_healthy starts at time t and sends its first poll.
BeginHealthWait(frame, t) ==
    [frame EXCEPT !.start = t, !.time_elapsed = 0,
                  !.pc = IF WaitGoesOn(0, warmup_timeout) THEN "health_get" ELSE "unhealthy"]

\* The calls a frame that has just moved sends.
Sent(frame, old) ==
    [old EXCEPT !.lists = IF frame.pc = "list" THEN @ + 1 ELSE @,
                !.health = IF frame.pc = "health_get" THEN @ + 1 ELSE @,
                !.deletes = IF frame.pc = "delete" THEN Append(@, frame.container.uid) ELSE @]

\* The frame moves on inside ensure_running_container, or leaves it when
\* wait_for_visible returned None (lines 119-121); lines 130-138 send the
\* delete when wait_for_healthy returned False.
EnsureStep(frame, log) ==
    LET f == IF frame.pc = "unhealthy"
             THEN [frame EXCEPT !.pc = "delete", !.healthy = "False"]
             ELSE frame
    IN  /\ plane' = Sent(f, log)
        /\ IF f.pc = "not_visible"
           THEN EnsureReturns(f, None)
           ELSE er' = f /\ UNCHANGED cc

\* commit.py lines 635-646 and targon_utils.py lines 104-107.
create_container_call ==
    /\ cc.pc = "idle"
    /\ cc' = [cc EXCEPT !.pc = "ensure"]
    /\ er' = [er EXCEPT !.pc = "deploy"]
    /\ plane' = [plane EXCEPT !.deploys = @ + 1]
    /\ UNCHANGED <<now, generatorVars, resolverVars, judgeVars, cliVars, clientVars, rendererVars>>

\* targon_client.py lines 103-109 and targon_utils.py lines 107-118.
deploy_done(ok, d) ==
    /\ er.pc = "deploy"
    /\ now' = now + d
    /\ LET log == IF ok THEN plane ELSE [plane EXCEPT !.failed = @ \cup {"deploy"}]
       IN  IF AfterDeploy(ok) = "wait_for_visible"
           THEN EnsureStep(BeginVisibleWait(er, now'), log)
           ELSE /\ plane' = log
                /\ EnsureReturns(er, None)
    /\ UNCHANGED <<generatorVars, resolverVars, judgeVars, cliVars, clientVars, rendererVars>>

\* targon_utils.py lines 36-44 (and 123-130 when the container is visible).
list_done(answer, d) ==
    /\ er.pc = "list"
    /\ now' = now + d
    /\ IF answer.error
       THEN /\ plane' = [plane EXCEPT !.failed = @ \cup {"list"}]
            /\ EnsureRaises(er, "TargonClientError")
       ELSE LET container == GetContainer(answer.containers, ContainerName)
            IN  IF IsVisible(container)
                THEN EnsureStep(BeginHealthWait([er EXCEPT !.container = container], now'),
                                plane)
                ELSE IF now' >= er.deadline
                THEN EnsureStep([er EXCEPT !.pc = "not_visible"], plane)
                ELSE EnsureStep([er EXCEPT !.pc = "visible_sleep"], plane)
    /\ UNCHANGED <<generatorVars, resolverVars, judgeVars, cliVars, clientVars, rendererVars>>

\* targon_utils.py lines 44-48 and 35-36.
visible_sleep_done ==
    /\ er.pc = "visible_sleep"
    /\ now' = now + check_interval
    /\ LET elapsed == now' - er.start
       IN  EnsureStep([er EXCEPT !.time_elapsed = elapsed,
                                 !.pc = IF WaitGoesOn(elapsed, deploy_timeout)
                                        THEN "list" ELSE "not_visible"],
                      plane)
    /\ UNCHANGED <<generatorVars, resolverVars, judgeVars, cliVars, clientVars, rendererVars>>

\* targon_utils.py lines 69-78: one GET of the health endpoint is answered.
health_done(answer, d) ==
    /\ er.pc = "health_get"
    /\ plane.health < MaxHealthPolls \/ answer # "204"
    /\ now' = now + d
    /\ LET log == [plane EXCEPT !.last_health = answer]
       IN  IF PollFailed(answer)
           THEN EnsureStep([er EXCEPT !.pc = "health_sleep"], log)
           ELSE IF IsHealthy(answer)
           THEN /\ plane' = log
                /\ EnsureReturns([er EXCEPT !.healthy = "True"], er.container)
           ELSE EnsureStep([er EXCEPT !.pc = IF WaitGoesOn(er.time_elapsed, warmup_timeout)
                                             THEN "health_get" ELSE "unhealthy"],
                           log)
    /\ UNCHANGED <<generatorVars, resolverVars, judgeVars, cliVars, clientVars, rendererVars>>

\* targon_utils.py lines 78-81, 69-71 and 137-138.
health_sleep_done ==
    /\ er.pc = "health_sleep"
    /\ now' = now + check_interval
    /\ LET elapsed == now' - er.start
       IN  EnsureStep([er EXCEPT !.time_elapsed = elapsed,
                                 !.pc = IF WaitGoesOn(elapsed, warmup_timeout)
                                        THEN "health_get" ELSE "unhealthy"],
                      plane)
    /\ UNCHANGED <<generatorVars, resolverVars, judgeVars, cliVars, clientVars, rendererVars>>

\* targon_client.py lines 113-120 and targon_utils.py lines 138-139.
delete_done(ok, d) ==
    /\ er.pc = "delete"
    /\ now' = now + d
    /\ plane' = IF ok THEN plane ELSE [plane EXCEPT !.failed = @ \cup {"delete"}]
    /\ IF ~ok /\ raise_on_failure
       THEN EnsureRaises(er, "TargonClientError")
       ELSE EnsureReturns(er, None)
    /\ UNCHANGED <<generatorVars, resolverVars, judgeVars, cliVars, clientVars, rendererVars>>

\* commit.py lines 653-656: the URL of the healthy container is returned.
create_container_return ==
    /\ cc.pc = "have_container"
    /\ cc' = [cc EXCEPT !.pc = "returned", !.outcome = cc.container.url]
    /\ UNCHANGED <<now, er, plane, generatorVars, resolverVars, judgeVars, cliVars, clientVars, rendererVars>>

\* The awaits of ensure_running_container.
Suspended == {"deploy", "list", "visible_sleep", "health_get", "health_sleep", "delete"}

\* commit.py lines 659-668: the cleanup deletes the container that line 646
\* assigned, if any.
CleansUp(container) == container # NoContainer

\* commit.py lines 659-661: an interrupt reaches _create_container, while it
\* awaits ensure_running_container or between lines 646 and 656.
interrupt ==
    /\ \/ cc.pc = "ensure" /\ er.pc \in Suspended
       \/ cc.pc = "have_container"
    /\ er' = IF cc.pc = "ensure" THEN [er EXCEPT !.pc = "cancelled", !.at = er.pc] ELSE er
    /\ IF CleansUp(cc.container)
       THEN /\ cc' = [cc EXCEPT !.pc = "cleanup"]
            /\ plane' = [plane EXCEPT !.deletes = Append(@, cc.container.uid)]
       ELSE /\ cc' = [cc EXCEPT !.pc = "interrupted", !.outcome = "CancelledError"]
            /\ UNCHANGED plane
    /\ UNCHANGED <<now, generatorVars, resolverVars, judgeVars, cliVars, clientVars, rendererVars>>

\* commit.py lines 663-668: the cleanup's delete ends, the interrupt is re-raised.
cleanup_done(ok, d) ==
    /\ cc.pc = "cleanup"
    /\ now' = now + d
    /\ plane' = IF ok THEN plane ELSE [plane EXCEPT !.failed = @ \cup {"delete"}]
    /\ cc' = [cc EXCEPT !.pc = "interrupted", !.outcome = "CancelledError"]
    /\ UNCHANGED <<er, generatorVars, resolverVars, judgeVars, cliVars, clientVars, rendererVars>>

InitContainer ==
    /\ GeneratorIdle
    /\ ContainerIdle
    /\ ResolverIdle
    /\ JudgeIdle
    /\ CliIdle
    /\ RendererIdle
    /\ ClientIdle

NextContainer ==
    \/ create_container_call
    \/ \E ok \in BOOLEAN, d \in CallTimes : deploy_done(ok, d)
    \/ \E answer \in ListAnswers, d \in CallTimes : list_done(answer, d)
    \/ visible_sleep_done
    \/ \E answer \in HealthAnswers, d \in CallTimes : health_done(answer, d)
    \/ health_sleep_done
    \/ \E ok \in BOOLEAN, d \in CallTimes : delete_done(ok, d)
    \/ create_container_return
    \/ interrupt
    \/ \E ok \in BOOLEAN, d \in CallTimes : cleanup_done(ok, d)

SpecContainer == InitContainer /\ [][NextContainer]_vars

(***************************************************************************)
(* _parse_commitments (src/commit.py).  A payload is what json.loads makes *)
(* of it: an object with its values under the keys commit, repo and        *)
(* cdn_url, another JSON value, or a decoding error.                       *)
(***************************************************************************)
MaxEntries == 2         \* entries of one hotkey
MaxBlock == 4           \* blocks are 1..MaxBlock

current_round == 1
schedule == [earliest_reveal_block |-> 2, latest_reveal_block |-> 3]

Hotkeys == <<"hk-a", "hk-b">>
Fields == {"commit", "repo", "cdn_url"}

\* A key the object lacks; dict.get returns None for it.
Null == "null"

Object(commit, repo, cdn_url) ==
    [json |-> "object", commit |-> commit, repo |-> repo, cdn_url |-> cdn_url]
Malformed == [json |-> "malformed", commit |-> Null, repo |-> Null, cdn_url |-> Null]
Array == [json |-> "array", commit |-> Null, repo |-> Null, cdn_url |-> Null]

Payloads ==
    {Object("c1", Null, Null), Object("c2", Null, Null), Object(Null, "r1", Null),
     Object(Null, "r2", "u1"), Object("", Null, Null), Malformed, Array}

Entries == {<<block, data>> : block \in 1..MaxBlock, data \in Payloads}

\* The entries of the second hotkey.
OtherEntries ==
    {<<>>, <<<<3, Object(Null, "r1", Null)>>, <<3, Object("c2", Null, Null)>>>>}

\* Lines 349-352: the entry is not skipped for its block.
InWindowOfCurrentRound(block) ==
    /\ block >= schedule.earliest_reveal_block
    /\ block <= schedule.latest_reveal_block
InWindow(block) ==
    /\ ~(round_number = current_round + 1 /\ block <= schedule.latest_reveal_block)
    /\ ~(/\ round_number <= current_round
         /\ \/ block < schedule.earliest_reveal_block
            \/ block > schedule.latest_reveal_block)

\* Lines 354-357: json.loads raises JSONDecodeError.
DecodeFailsNever(data) == FALSE
DecodeFails(data) == data.json = "malformed"

\* Line 359: parsed.get exists only on an object.
HasGet(data) == data.json = "object"

\* The truth value of what parsed.get returned (lines 359, 363, 367).
Truthy(value) == value \notin {Null, ""}

NoLatest == [block |-> 0, value |-> Null]

\* Lines 359-369: the walrus test and the comparison with the latest so far.
UpdateLastSeen(latest, block, value) ==
    IF Truthy(value) THEN [block |-> block, value |-> value] ELSE latest
UpdateOnTie(latest, block, value) ==
    IF Truthy(value) /\ (latest = NoLatest \/ block >= latest.block)
    THEN [block |-> block, value |-> value]
    ELSE latest
Update(latest, block, value) ==
    IF Truthy(value) /\ (latest = NoLatest \/ block > latest.block)
    THEN [block |-> block, value |-> value]
    ELSE latest

NoneYet == [commit |-> NoLatest, repo |-> NoLatest, cdn_url |-> NoLatest, raised |-> FALSE]

\* Lines 348-369: the loop over the entries of one hotkey, from entry i on.
RECURSIVE ScanEntries(_, _, _)
ScanEntries(entries, i, latest) ==
    IF i > Len(entries) THEN latest
    ELSE LET block == entries[i][1]
             data == entries[i][2]
         IN  IF ~InWindow(block) \/ DecodeFails(data)
             THEN ScanEntries(entries, i + 1, latest)
             ELSE IF ~HasGet(data)
             THEN [latest EXCEPT !.raised = TRUE]
             ELSE ScanEntries(entries, i + 1,
                      [latest EXCEPT !.commit = Update(@, block, data.commit),
                                     !.repo = Update(@, block, data.repo),
                                     !.cdn_url = Update(@, block, data.cdn_url)])

\* Lines 371-372: the hotkey is left out of the results.
DroppedWithoutAnyField(latest) ==
    latest.commit = NoLatest /\ latest.repo = NoLatest /\ latest.cdn_url = NoLatest
Dropped(latest) == latest.commit = NoLatest

\* Lines 374-382.
ResultRecord(hotkey, latest) ==
    [hotkey |-> hotkey,
     commit_hash |-> latest.commit.value, commit_block |-> latest.commit.block,
     repo |-> latest.repo.value, repo_block |-> latest.repo.block,
     cdn_url |-> latest.cdn_url.value, cdn_block |-> latest.cdn_url.block]

\* Lines 343-384: the hotkeys of the mapping from the k-th on, added to results.
RECURSIVE ParseOf(_, _, _)
ParseOf(mapping, k, found) ==
    IF k > Len(Hotkeys) THEN [pc |-> "returned", results |-> found]
    ELSE LET hotkey == Hotkeys[k]
             latest == ScanEntries(mapping[hotkey], 1, NoneYet)
         IN  IF latest.raised
             THEN [pc |-> "raised", results |-> found]
             ELSE IF Dropped(latest)
             THEN ParseOf(mapping, k + 1, found)
             ELSE ParseOf(mapping, k + 1,
                      [h \in DOMAIN found \cup {hotkey} |->
                          IF h = hotkey THEN ResultRecord(hotkey, latest) ELSE found[h]])

\* _parse_commitments(commitments, ...) from the k-th hotkey on.
ParseFrom(k, found) == ParseOf(commitments, k, found)

NoResults == [h \in {} |-> NoneYet]

\* commit.py line 330: _parse_commitments is called and returns or raises.
parse_commitments ==
    /\ parsed.pc = "idle"
    /\ parsed' = ParseFrom(1, NoResults)
    /\ UNCHANGED <<commitments, round_number, generatorVars, containerVars, judgeVars, cliVars, clientVars, rendererVars>>

InitResolver ==
    /\ GeneratorIdle
    /\ ContainerIdle
    /\ \E first \in SeqsUpTo(Entries, MaxEntries), second \in OtherEntries :
          commitments = [h \in {Hotkeys[1], Hotkeys[2]} |->
                            IF h = Hotkeys[1] THEN first ELSE second]
    /\ round_number \in {current_round - 1, current_round, current_round + 1}
    /\ parsed = [pc |-> "idle", results |-> <<>>]
    /\ JudgeIdle
    /\ CliIdle
    /\ RendererIdle
    /\ ClientIdle

NextResolver == parse_commitments

SpecResolver == InitResolver /\ [][NextResolver]_vars

(***************************************************************************)
(* Judge (src/judge.py).  judge creates one task per prompt that has an    *)
(* image in both directories; a task downloads the prompt under the 8-slot *)
(* request_sem and then gathers two ask_judge calls, each made under the   *)
(* 1-slot process_sem.  judge_sem.waiters is the queue of process_sem.     *)
(***************************************************************************)
MaxDuels == 2           \* prompts of the prompt file; judge creates 0..MaxDuels tasks

JudgeRequestSlots == 8  \* asyncio.Semaphore(8), line 89
JudgeProcessSlots == 1  \* asyncio.Semaphore(1), line 90

Positions == {1, 2}     \* the two ask_judge calls of line 181-184

\* JudgeResponse, lines 28-36: the penalties of the first and of the second
\* image shown.  A request that fails has no answer.
JudgeResponses ==
    {[penalty_1 |-> 0, penalty_2 |-> 0], [penalty_1 |-> 1, penalty_2 |-> 0],
     [penalty_1 |-> 0, penalty_2 |-> 2], [penalty_1 |-> 3, penalty_2 |-> 0]}
NoResponse == [penalty_1 |-> -1, penalty_2 |-> -1]
Answers == JudgeResponses \cup {NoResponse}

NewAsk == [pc |-> "idle", requests |-> 0, answer |-> NoResponse]
NewDuel == [pc |-> "created", outcome |-> "pending", ask |-> <<NewAsk, NewAsk>>]

Duels == DOMAIN duel

\* ask_judge, line 233: async with process_sem, entered by call c of task u.
AskLocked(sem) == sem.process = 0 \/ sem.waiters # <<>>
AskAcquire(sem, u, c) ==
    IF AskLocked(sem)
    THEN [sem EXCEPT !.waiters = Append(@, <<u, c>>)]
    ELSE [sem EXCEPT !.process = @ - 1]

\* Line 233, leaving the block: the slot goes to the first waiter, if any.
Woken(sem) == IF sem.waiters # <<>> THEN Head(sem.waiters) ELSE <<0, 0>>
AskRelease(sem) ==
    IF sem.waiters # <<>>
    THEN [sem EXCEPT !.waiters = Tail(@)]
    ELSE [sem EXCEPT !.process = @ + 1]

\* Lines 70-72: the keys of the prompt file, in its order.
PromptNames == [i \in 1..MaxDuels |-> i]
\* Lines 78 and 84: the keys of the .png files of an image directory.
ImageDirs == SUBSET (1..MaxDuels)

\* Lines 91-105: a task is created for each prompt key that has a file in both
\* directories, and the key is appended to prompt_keys.
HasFiles(key, dir_1, dir_2) == key \in dir_1 /\ key \in dir_2

\* Lines 86-108: the semaphores and the tasks, then the gather.
judge_create_tasks(dir_1, dir_2) ==
    /\ judge.pc = "idle"
    /\ LET keys == SelectSeq(PromptNames, LAMBDA key : HasFiles(key, dir_1, dir_2))
       IN  /\ judge' = [judge EXCEPT !.pc = "gather", !.prompt_keys = keys,
                                     !.image_dir_1 = dir_1, !.image_dir_2 = dir_2]
           /\ duel' = [u \in 1..Len(keys) |-> NewDuel]
    /\ judge_sem' = [request |-> JudgeRequestSlots, process |-> JudgeProcessSlots,
                     waiters |-> <<>>]
    /\ UNCHANGED <<generatorVars, containerVars, resolverVars, cliVars, clientVars, rendererVars>>

\* Lines 162-166: a task enters request_sem and requests its prompt image.
duel_start(u) ==
    /\ judge.pc = "gather"
    /\ duel[u].pc = "created"
    /\ \A v \in Duels : v < u => duel[v].pc # "created"
    /\ judge_sem.request > 0
    /\ judge_sem' = [judge_sem EXCEPT !.request = @ - 1]
    /\ duel' = [duel EXCEPT ![u].pc = "download"]
    /\ UNCHANGED <<judge, generatorVars, containerVars, resolverVars, cliVars, clientVars, rendererVars>>

\* Lines 166-184 and 233-271: the download ends and request_sem is left; after
\* a good download both ask_judge calls start, in order, and the one that gets
\* process_sem sends its request.  Lines 205-207 re-raise a failed download.
download_done(u, ok) ==
    /\ duel[u].pc = "download"
    /\ LET left == [judge_sem EXCEPT !.request = @ + 1]
           first == AskAcquire(left, u, 1)
           second == AskAcquire(first, u, 2)
           started(sem) == IF AskLocked(sem)
                           THEN [NewAsk EXCEPT !.pc = "wait"]
                           ELSE [NewAsk EXCEPT !.pc = "flight", !.requests = 1]
       IN  IF ok
           THEN /\ judge_sem' = second
                /\ duel' = [duel EXCEPT ![u].pc = "judging",
                                        ![u].ask = <<started(left), started(first)>>]
           ELSE /\ judge_sem' = left
                /\ duel' = [duel EXCEPT ![u].pc = "done", ![u].outcome = "HTTPStatusError"]
    /\ UNCHANGED <<judge, generatorVars, containerVars, resolverVars, cliVars, clientVars, rendererVars>>

\* Lines 181-207 as the gather of task x sees its calls end: the first
\* exception ends the task with it, two answers end it with a DuelResult.
DuelAfter(x, asks) ==
    IF x.pc # "judging" THEN [x EXCEPT !.ask = asks]
    ELSE IF \E d \in Positions : asks[d].pc = "failed"
    THEN [x EXCEPT !.ask = asks, !.pc = "done", !.outcome = "APIError"]
    ELSE IF \A d \in Positions : asks[d].pc = "ok"
    THEN [x EXCEPT !.ask = asks, !.pc = "done", !.outcome = "DuelResult"]
    ELSE [x EXCEPT !.ask = asks]

\* Lines 271-282 and 233: the request of call c of task u is answered or fails,
\* process_sem is left and its first waiter sends its request.
ask_done(u, c, answer) ==
    /\ duel[u].ask[c].pc = "flight"
    /\ judge_sem' = AskRelease(judge_sem)
    /\ duel' = [x \in Duels |->
                   DuelAfter(duel[x],
                       [d \in Positions |->
                           IF <<x, d>> = <<u, c>>
                           THEN [pc |-> IF answer # NoResponse THEN "ok" ELSE "failed",
                                 requests |-> duel[x].ask[d].requests,
                                 answer |-> answer]
                           ELSE IF <<x, d>> = Woken(judge_sem)
                           THEN [duel[x].ask[d] EXCEPT !.pc = "flight", !.requests = @ + 1]
                           ELSE duel[x].ask[d]])]
    /\ UNCHANGED <<judge, generatorVars, containerVars, resolverVars, cliVars, clientVars, rendererVars>>

\* Lines 186-196: twice the averaged penalties of the left and of the right
\* image (the halves are exact), and the outcome.
DuelOutcomeStrict(result_1, result_2) ==
    LET left == result_1.penalty_1 + result_2.penalty_2
        right == result_1.penalty_2 + result_2.penalty_1
    IN  IF left = right THEN 0 ELSE IF left < right THEN -1 ELSE 1
DuelOutcome(result_1, result_2) ==
    LET left == result_1.penalty_1 + result_2.penalty_2
        right == result_1.penalty_2 + result_2.penalty_1
        abs == IF left >= right THEN left - right ELSE right - left
    IN  IF abs <= 2 THEN 0 ELSE IF left < right THEN -1 ELSE 1

\* Lines 112-128: what judge stores for a result of the gather.
DuelEntry(x) ==
    IF x.outcome = "DuelResult"
    THEN [outcome |-> DuelOutcome(x.ask[1].answer, x.ask[2].answer), error |-> FALSE]
    ELSE [outcome |-> 0, error |-> TRUE]

\* Lines 110-128: duel_results, one entry for each key of prompt_keys.
DuelResultsOfSuccesses ==
    [key \in {judge.prompt_keys[u] : u \in {v \in Duels : duel[v].outcome = "DuelResult"}} |->
        DuelEntry(duel[CHOOSE u \in Duels : judge.prompt_keys[u] = key])]
DuelResults ==
    [key \in {judge.prompt_keys[u] : u \in Duels} |->
        DuelEntry(duel[CHOOSE u \in Duels : judge.prompt_keys[u] = key])]

\* Lines 108-134: every task is done, the results are saved, judge returns.
judge_gather_return ==
    /\ judge.pc = "gather"
    /\ \A u \in Duels : duel[u].pc = "done"
    /\ judge' = [judge EXCEPT !.pc = "returned", !.saved = TRUE, !.output = DuelResults]
    /\ UNCHANGED <<duel, judge_sem, generatorVars, containerVars, resolverVars, cliVars, clientVars, rendererVars>>

\* Lines 136-145: an interrupt reaches the gather; every task that is not done
\* is cancelled, and with it the calls its own gather still awaits; the slots
\* they held are left, and judge re-raises once the tasks are done.
judge_interrupt ==
    /\ judge.pc = "gather"
    /\ LET hit(u) == duel[u].pc # "done"
           kept == SelectSeq(judge_sem.waiters, LAMBDA w : ~hit(w[1]))
           freed == \E u \in Duels : hit(u) /\ \E d \in Positions : duel[u].ask[d].pc = "flight"
           sem == [judge_sem EXCEPT
                      !.request = @ + Cardinality({u \in Duels : duel[u].pc = "download"}),
                      !.waiters = kept]
       IN  /\ judge_sem' = IF freed THEN AskRelease(sem) ELSE sem
           /\ duel' = [u \in Duels |->
                          IF hit(u)
                          THEN [pc |-> "done", outcome |-> "CancelledError",
                                ask |-> [d \in Positions |->
                                            IF duel[u].ask[d].pc \in {"wait", "flight"}
                                            THEN [duel[u].ask[d] EXCEPT !.pc = "cancelled"]
                                            ELSE duel[u].ask[d]]]
                          ELSE [duel[u] EXCEPT !.ask =
                                   [d \in Positions |->
                                       IF freed /\ <<u, d>> = Woken(sem)
                                       THEN [@[d] EXCEPT !.pc = "flight", !.requests = @ + 1]
                                       ELSE @[d]]]]
    /\ judge' = [judge EXCEPT !.pc = "cancelled"]
    /\ UNCHANGED <<generatorVars, containerVars, resolverVars, cliVars, clientVars, rendererVars>>

InitJudge ==
    /\ GeneratorIdle
    /\ ContainerIdle
    /\ ResolverIdle
    /\ JudgeIdle
    /\ CliIdle
    /\ RendererIdle
    /\ ClientIdle

NextJudge ==
    \/ \E dir_1, dir_2 \in ImageDirs : judge_create_tasks(dir_1, dir_2)
    \/ \E u \in Duels : duel_start(u)
    \/ \E u \in Duels, ok \in BOOLEAN : download_done(u, ok)
    \/ \E u \in Duels, c \in Positions, answer \in Answers : ask_done(u, c, answer)
    \/ judge_gather_return
    \/ judge_interrupt

SpecJudge == InitJudge /\ [][NextJudge]_vars

(***************************************************************************)
(* The commands of the CLI (src/commit.py) that run a batch or a container *)
(* under asyncio.run.  The start commands run _create_container as         *)
(* modelled above; of the other commands only the way their coroutine ends *)
(* is modelled here.                                                       *)
(***************************************************************************)
StartCommands == {"start-generator", "start-renderer", "start-judge"}
BatchCommands == {"generate", "render", "judge", "stop-pods"}

\* What may happen to the coroutine of a batch command while it runs: nothing,
\* the cancellation by which asyncio.run delivers a user interrupt, a
\* KeyboardInterrupt raised inside the running code, or another exception.
Events == {"none", "CancelledError", "KeyboardInterrupt", "Exception"}

\* How the coroutine of a batch command ends: Renderer.render (renderer.py
\* lines 36-46) turns KeyboardInterrupt and Exception into SystemExit and lets a
\* cancellation through; generate_all, judge and _stop re-raise.
CoroutineEnd(command, event) ==
    IF event = "none" THEN "returned"
    ELSE IF command = "render" /\ event = "KeyboardInterrupt" THEN "SystemExit(130)"
    ELSE IF command = "render" /\ event = "Exception" THEN "SystemExit(1)"
    ELSE event

\* How _create_container ended (commit.py lines 653-668).
ContainerEnd ==
    IF cc.pc = "returned" THEN "returned"
    ELSE IF cc.pc = "interrupted" THEN cc.outcome
    ELSE "Exception"

\* asyncio.run raises KeyboardInterrupt when the main task was cancelled by
\* the interrupt, and passes on everything else.
AsyncioRun(end) == IF end = "CancelledError" THEN "KeyboardInterrupt" ELSE end

\* The handlers around asyncio.run in the command functions and the exit
\* status of the process: render_cmd (lines 461-463) only reports the
\* interrupt and has no handler for other exceptions.
CommandExit(command, raised) ==
    IF raised = "returned" THEN 0
    ELSE IF raised = "SystemExit(130)" THEN 130
    ELSE IF raised = "SystemExit(1)" THEN 1
    ELSE IF raised = "KeyboardInterrupt" THEN (IF command = "render" THEN 0 ELSE 130)
    ELSE 1

\* The reports the handlers of a command print on its standard output, in
\* order: "success" for an object with "success": true, "failure" for one with
\* "success": false.  generate_cmd reports another exception on stderr only
\* (line 604); render_cmd has no handler for one.
Reported(command, raised) ==
    IF raised = "returned"
    THEN (IF command = "stop-pods" THEN <<>> ELSE <<"success">>)
    ELSE IF raised = "KeyboardInterrupt" THEN <<"failure">>
    ELSE IF command \in {"generate", "render"} THEN <<>>
    ELSE <<"failure">>

\* Lines 531-532: the finally of judge_cmd.
JudgeFinally(command, raised) == IF command = "judge" THEN <<"success">> ELSE <<>>

CommandOutput(command, raised) ==
    Reported(command, raised) \o JudgeFinally(command, raised)

\* A command is invoked.
command_start(command) ==
    /\ cli.pc = "idle"
    /\ cli' = [cli EXCEPT !.command = command, !.pc = "running"]
    /\ UNCHANGED <<generatorVars, containerVars, resolverVars, judgeVars, clientVars, rendererVars>>

\* Lines 395, 424, 472: a start command calls _create_container.
start_container ==
    /\ cli.pc = "running"
    /\ cli.command \in StartCommands
    /\ create_container_call

\* Lines 395-414 (and 424-443, 472-492): _create_container is over.
start_command_exit ==
    /\ cli.pc = "running"
    /\ cli.command \in StartCommands
    /\ cc.pc \in {"returned", "raised", "interrupted"}
    /\ cli' = [cli EXCEPT !.pc = "exited",
                          !.interrupted = cc.pc = "interrupted",
                          !.status = CommandExit(cli.command, AsyncioRun(ContainerEnd)),
                          !.output = CommandOutput(cli.command, AsyncioRun(ContainerEnd))]
    /\ UNCHANGED <<generatorVars, containerVars, resolverVars, judgeVars, clientVars, rendererVars>>

\* Lines 459-463, 521-532, 547-555, 597-605: the coroutine of a batch command
\* is over.
batch_command_exit(event) ==
    /\ cli.pc = "running"
    /\ cli.command \in BatchCommands
    /\ cli' = [cli EXCEPT !.pc = "exited",
                          !.interrupted = event \in {"CancelledError", "KeyboardInterrupt"},
                          !.status = CommandExit(cli.command,
                                                 AsyncioRun(CoroutineEnd(cli.command, event))),
                          !.output = CommandOutput(cli.command,
                                                   AsyncioRun(CoroutineEnd(cli.command, event)))]
    /\ UNCHANGED <<generatorVars, containerVars, resolverVars, judgeVars, clientVars, rendererVars>>

InitCli ==
    /\ GeneratorIdle
    /\ ContainerIdle
    /\ ResolverIdle
    /\ JudgeIdle
    /\ CliIdle
    /\ RendererIdle
    /\ ClientIdle

NextCli ==
    \/ \E command \in StartCommands \cup BatchCommands : command_start(command)
    \/ start_container
    \/ \E ok \in BOOLEAN, d \in CallTimes : deploy_done(ok, d)
    \/ \E answer \in ListAnswers, d \in CallTimes : list_done(answer, d)
    \/ visible_sleep_done
    \/ \E answer \in HealthAnswers, d \in CallTimes : health_done(answer, d)
    \/ health_sleep_done
    \/ \E ok \in BOOLEAN, d \in CallTimes : delete_done(ok, d)
    \/ create_container_return
    \/ interrupt
    \/ \E ok \in BOOLEAN, d \in CallTimes : cleanup_done(ok, d)
    \/ start_command_exit
    \/ \E event \in Events : batch_command_exit(event)

SpecCli == InitCli /\ [][NextCli]_vars

(***************************************************************************)
(* TargonClient called by name (src/targon_client.py): get_container and   *)
(* delete_containers_by_name over one answer of the control plane.         *)
(***************************************************************************)
Names == {ContainerName, "other", "po", ""}

\* Lines 78-81.
client_get_container ==
    /\ client.pc = "idle"
    /\ client' = IF client.answer.error
                 THEN [client EXCEPT !.pc = "raised"]
                 ELSE [client EXCEPT !.pc = "got",
                                     !.got = GetContainer(client.answer.containers,
                                                          client.name)]
    /\ UNCHANGED <<generatorVars, containerVars, resolverVars, judgeVars, cliVars, rendererVars>>

\* Lines 122-127: one delete call per container list_containers returned.
client_delete_containers_by_name ==
    /\ client.pc = "idle"
    /\ client' = IF client.answer.error
                 THEN [client EXCEPT !.pc = "raised"]
                 ELSE LET containers == ListContainers(client.answer.containers, client.name)
                      IN  [client EXCEPT !.pc = "deleted",
                                         !.deleted = [i \in DOMAIN containers |->
                                                          containers[i].uid]]
    /\ UNCHANGED <<generatorVars, containerVars, resolverVars, judgeVars, cliVars, rendererVars>>

InitClient ==
    /\ GeneratorIdle
    /\ ContainerIdle
    /\ ResolverIdle
    /\ JudgeIdle
    /\ CliIdle
    /\ RendererIdle
    /\ \E name \in Names, answer \in ListAnswers :
          client = [pc |-> "idle", name |-> name, answer |-> answer,
                    got |-> NoContainer, deleted |-> <<>>]

NextClient ==
    \/ client_get_container
    \/ client_delete_containers_by_name

SpecClient == InitClient /\ [][NextClient]_vars

(***************************************************************************)
(* Renderer (src/renderer.py): render creates one task per .ply or .glb    *)
(* file and gathers them; _process_prompt posts its file under the one     *)
(* slot of process_sem.                                                    *)
(*   renderer.pc: idle | gather | cancelling | returned | cancelled        *)
(*   unit pc: created | wait | post | done; at is where a cancellation     *)
(*   reached the unit.                                                     *)
(***************************************************************************)
MaxFiles == 3           \* .ply and .glb files of the data directory

RenderProcessSlots == 1 \* asyncio.Semaphore(1), line 22

NewRenderUnit ==
    [pc |-> "created", must_cancel |-> FALSE, outcome |-> "pending", rendered |-> FALSE,
     at |-> "nowhere"]

RenderUnits == DOMAIN renderer.unit
RenderDone(u) == renderer.unit[u].pc = "done"

\* The waiters of process_sem whose future is still pending: a cancelled
\* waiter's future is done, and release() skips it.
RenderPending ==
    SelectSeq(renderer.process_sem.waiters, LAMBDA w : ~renderer.unit[w].must_cancel)
RenderWoken == IF RenderPending # <<>> THEN Head(RenderPending) ELSE NoTask

\* Line 50, leaving the block: unit u becomes frame, the slot goes to the
\* first pending waiter, which sends its POST (line 64), or is free again.
RenderLeave(u, frame) ==
    LET w == RenderWoken
    IN  renderer' =
            [renderer EXCEPT
                !.unit = [x \in RenderUnits |->
                            IF x = u THEN frame
                            ELSE IF x = w THEN [renderer.unit[x] EXCEPT !.pc = "post"]
                            ELSE renderer.unit[x]],
                !.process_sem =
                    IF w = NoTask THEN [@ EXCEPT !.value = @ + 1]
                    ELSE [@ EXCEPT !.waiters = SelectSeq(@, LAMBDA x : x # w)]]

\* Lines 20-36: the semaphore and the tasks, then the gather.
render_create_tasks(n) ==
    /\ renderer.pc = "idle"
    /\ renderer' = [pc |-> "gather",
                    unit |-> [u \in 1..n |-> NewRenderUnit],
                    process_sem |-> [value |-> RenderProcessSlots, waiters |-> <<>>]]
    /\ UNCHANGED <<generatorVars, containerVars, resolverVars, judgeVars, cliVars, clientVars>>

\* Lines 50-64: a task starts, in creation order; it takes the slot or queues
\* for it; with the slot it reads its file and sends the POST, and a file it
\* cannot read is only logged (lines 74-76), which ends the task.
render_process_prompt_start(u, readable) ==
    /\ renderer.pc \in {"gather", "cancelling"}
    /\ renderer.unit[u].pc = "created"
    /\ ~renderer.unit[u].must_cancel
    /\ \A v \in RenderUnits : v < u => renderer.unit[v].pc # "created"
    /\ LET sem == renderer.process_sem
           locked == sem.value = 0 \/ RenderPending # <<>>
       IN  IF locked
           THEN renderer' = [renderer EXCEPT !.unit[u].pc = "wait",
                                             !.process_sem.waiters = Append(@, u)]
           ELSE IF readable
           THEN renderer' = [renderer EXCEPT !.unit[u].pc = "post",
                                             !.process_sem.value = @ - 1]
           ELSE renderer' = [renderer EXCEPT !.unit[u].pc = "done",
                                             !.unit[u].outcome = "None"]
    /\ UNCHANGED <<generatorVars, containerVars, resolverVars, judgeVars, cliVars, clientVars>>

\* Lines 64-76: the POST is answered; a good answer is written to the output
\* file, a failure is only logged; the task returns None either way.
render_post_done(u, ok) ==
    /\ renderer.unit[u].pc = "post"
    /\ ~renderer.unit[u].must_cancel
    /\ RenderLeave(u, [renderer.unit[u] EXCEPT !.pc = "done", !.outcome = "None",
                                               !.rendered = ok])
    /\ UNCHANGED <<generatorVars, containerVars, resolverVars, judgeVars, cliVars, clientVars>>

\* Line 36: gather(..., return_exceptions=True) resolves once every task is done.
RenderGatherResolves == \A u \in RenderUnits : RenderDone(u)

\* Line 36: the gather returns and render returns.
render_gather_return ==
    /\ renderer.pc = "gather"
    /\ RenderGatherResolves
    /\ renderer' = [renderer EXCEPT !.pc = "returned"]
    /\ UNCHANGED <<generatorVars, containerVars, resolverVars, judgeVars, cliVars, clientVars>>

\* Line 36: the task running render is cancelled while it awaits the gather.
\* Cancelling a task cancels the future it awaits, and cancelling a gather
\* cancels each of its tasks that is not done.
render_cancel ==
    /\ renderer.pc = "gather"
    /\ ~RenderGatherResolves
    /\ renderer' = [renderer EXCEPT
                       !.pc = "cancelling",
                       !.unit = [u \in RenderUnits |->
                                    IF RenderDone(u) THEN renderer.unit[u]
                                    ELSE [renderer.unit[u] EXCEPT !.must_cancel = TRUE]]]
    /\ UNCHANGED <<generatorVars, containerVars, resolverVars, judgeVars, cliVars, clientVars>>

\* CancelledError is thrown into the task where it is suspended: a task that
\* never ran or that waits for the slot just ends (lines 50); in the POST it
\* passes both "except Exception" (lines 74, 77) and leaves the slot.
render_unit_cancelled(u) ==
    /\ renderer.unit[u].must_cancel
    /\ ~RenderDone(u)
    /\ LET frame == [renderer.unit[u] EXCEPT !.pc = "done", !.outcome = "CancelledError",
                                             !.at = renderer.unit[u].pc]
       IN  IF renderer.unit[u].pc = "post"
           THEN RenderLeave(u, frame)
           ELSE renderer' = [renderer EXCEPT
                                !.unit[u] = frame,
                                !.process_sem.waiters = SelectSeq(@, LAMBDA x : x # u)]
    /\ UNCHANGED <<generatorVars, containerVars, resolverVars, judgeVars, cliVars, clientVars>>

\* Line 36: a gather that was cancelled still waits for all of its tasks.
CancelledGatherResolvesAtOnce == TRUE
CancelledGatherResolves == RenderGatherResolves

\* Lines 36-46: the cancelled gather resolves with CancelledError, which
\* neither "except KeyboardInterrupt" nor "except Exception" catches: it
\* leaves render.
render_cancelled_leaves ==
    /\ renderer.pc = "cancelling"
    /\ CancelledGatherResolves
    /\ renderer' = [renderer EXCEPT !.pc = "cancelled"]
    /\ UNCHANGED <<generatorVars, containerVars, resolverVars, judgeVars, cliVars, clientVars>>

InitRenderer ==
    /\ GeneratorIdle
    /\ ContainerIdle
    /\ ResolverIdle
    /\ JudgeIdle
    /\ CliIdle
    /\ ClientIdle
    /\ RendererIdle

NextRenderer ==
    \/ \E n \in 0..MaxFiles : render_create_tasks(n)
    \/ \E u \in RenderUnits, readable \in BOOLEAN : render_process_prompt_start(u, readable)
    \/ \E u \in RenderUnits, ok \in BOOLEAN : render_post_done(u, ok)
    \/ render_gather_return
    \/ render_cancel
    \/ \E u \in RenderUnits : render_unit_cancelled(u)
    \/ render_cancelled_leaves

SpecRenderer == InitRenderer /\ [][NextRenderer]_vars


(***************************************************************************)
(* Properties of Generator.                                                *)
(***************************************************************************)
Created == gpc # "start"
HoldersOf(slot) == {u \in Units : slot \in task[u].holds}
Failed(u) == task[u].outcome.kind \in {"HTTPError", "RuntimeError"}
Succeeded(u) == task[u].outcome.kind = "returned"

\* C1: when generate_all's gather returns, the result list has one entry per
\* prompt and entry i is the outcome (return value or exception) of the task
\* created for prompts[i], whatever the order in which the tasks finished.
C1_ResultsAligned ==
    gpc = "returned" =>
        /\ Len(results) = Len(prompts)
        /\ \A i \in 1..Len(prompts) :
            /\ results[i] = task[i].outcome
            /\ IsException(results[i]) => results[i].key = PromptKey(prompts[i])

\* Three prompts, the first failed and a later one succeeded.
C1_Witness ==
    /\ gpc = "returned"
    /\ Len(prompts) = 3
    /\ IsException(results[1])
    /\ results[3].kind = "returned"
    /\ results[2].kind = "RuntimeError"

C3_InnerWithinOuter ==
    Created =>
        (HoldersOf("request") \cup request_sem.waiters
            \cup {u \in Units : task[u].pc = "inner_wait"})
        \subseteq HoldersOf("process")

\* One task holds the inner slot, another waits for it, both inside the outer.
C3_Witness ==
    /\ Created
    /\ \E u, v \in Units :
        /\ task[u].pc = "request" /\ "request" \in task[u].holds
        /\ task[v].pc = "inner_wait" /\ v \in request_sem.waiters
        /\ {u, v} \subseteq HoldersOf("process")

\* C4: a task that reads a response body has released request_sem before: it
\* never holds the inner slot while it reads.
C4_ReadWithoutSlot ==
    Created =>
        \A u \in Units :
            task[u].pc = "read" =>
                /\ "request" \notin task[u].holds
                /\ task[u].sem_released
                /\ task[u].releases = task[u].calls

\* A second task has its remote call in flight while the first still reads.
C4_Witness ==
    /\ Created
    /\ \E u, v \in Units :
        /\ u # v
        /\ task[u].pc = "read"
        /\ task[v].pc = "request"
        /\ "request" \in task[v].holds

\* C5: request_sem never exceeds its initial value, every acquisition of it
\* is matched by exactly one release, and when generate_all exits (return
\* or re-raised cancellation) both semaphores are back at their initial
\* values with no holder and no waiter.
C5_SlotsRestored ==
    Created =>
        /\ request_sem.value <= 1
        /\ process_sem.value <= 8
        /\ \A u \in Units :
            /\ task[u].releases <= task[u].calls
            /\ task[u].calls <= task[u].releases + 1
            /\ IsDone(task[u]) => task[u].releases = task[u].calls
        /\ gpc \in {"returned", "cancelled", "raised_error"} =>
            /\ request_sem = [value |-> 1, waiters |-> {}]
            /\ process_sem = [value |-> 8, waiters |-> {}]
            /\ \A u \in Units : task[u].holds = {}

\* A cancelled batch in which one task was cancelled during a remote call or
\* a body read, after an attempt of some task had failed.
C5_Witness ==
    /\ gpc = "cancelled"
    /\ \E u \in Units :
        /\ task[u].outcome.kind = "CancelledError"
        /\ task[u].calls >= 1
    /\ \E u \in Units : \E k \in 1..Len(task[u].log) : task[u].log[k] = "None"
    /\ \E u \in Units : Succeeded(u)

StaysInterrupted ==
    gpc \in {"interrupted", "cancelled"} => gpc' \in {"interrupted", "cancelled"}

\* C6: once generate_all is interrupted, every task that is not done has a
\* cancellation requested, the cancellation is re-raised only when every task
\* is done, and generate_all never returns normally afterwards.
C6_CancelJoinsThenRaises ==
    /\ [](gpc = "interrupted" =>
            \A u \in Units : ~IsDone(task[u]) => task[u].must_cancel)
    /\ [](gpc = "cancelled" => AllDone)
    /\ [][StaysInterrupted]_vars

\* The cancellation was re-raised after a running task had been cancelled.
C6_Witness ==
    /\ gpc = "cancelled"
    /\ \E u \in Units : task[u].outcome.kind = "CancelledError" /\ task[u].calls >= 1
    /\ \E u \in Units : Succeeded(u)

FailureLeavesSiblings ==
    Created =>
        \A u \in Units :
            (task[u].outcome.kind = "pending" /\ IsException(task'[u].outcome)) =>
                \A v \in Units \ {u} :
                    /\ task'[v].outcome = task[v].outcome
                    /\ task'[v].must_cancel = task[v].must_cancel

\* C7: the gather of generate_all ends only when every task is done, and a
\* step in which one task fails neither cancels another task nor changes
\* another task's outcome.
C7_NoShortCircuit ==
    /\ [](gpc \in {"returned", "raised_error"} => AllDone)
    /\ [][FailureLeavesSiblings]_vars

\* A task has failed while another is still in its remote call.
C7_Witness ==
    /\ gpc = "gather"
    /\ \E u, v \in Units :
        /\ Failed(u)
        /\ task[v].pc = "request"
        /\ ~task[v].must_cancel

\* C8: a job all of whose attempts failed is resolved as a failure after
\* exactly 3 remote calls, a job fails with RuntimeError only that way, and
\* no exception leaves generate_all because of it.
C8_FailureAfterThreeCalls ==
    Created =>
        /\ \A u \in Units :
            /\ (Len(task[u].log) >= 3 /\ \A k \in 1..Len(task[u].log) : task[u].log[k] = "None") =>
                /\ IsDone(task[u])
                /\ task[u].outcome.kind = "RuntimeError"
                /\ task[u].calls = 3
            /\ task[u].outcome.kind = "RuntimeError" =>
                /\ task[u].calls = 3
                /\ task[u].log = <<"None", "None", "None">>
            /\ task[u].calls <= 3
        /\ gpc # "raised_error"

\* The batch returned normally with a job that failed three times.
C8_Witness ==
    /\ gpc = "returned"
    /\ \E u \in Units :
        /\ task[u].outcome.kind = "RuntimeError"
        /\ task[u].calls = 3

\* C9: a job whose attempts 1 and 2 failed and whose attempt 3 succeeded is
\* resolved as a success, the bytes of its third call are what is saved, and
\* no remote call follows a successful attempt.
C9_SuccessOnThird ==
    Created =>
        \A u \in Units :
            /\ task[u].log = <<"None", "None", "bytes">> =>
                /\ IsDone(task[u])
                /\ Succeeded(u)
                /\ files[PromptKey(prompts[u])] = [kind |-> "bytes", unit |-> u, call |-> 3]
            /\ (task[u].log # <<>> /\ task[u].log[Len(task[u].log)] = "bytes") =>
                /\ IsDone(task[u])
                /\ Succeeded(u)
                /\ task[u].calls = Len(task[u].log)

\* A job succeeded on its third attempt.
C9_Witness ==
    /\ Created
    /\ \E u \in Units :
        /\ task[u].log = <<"None", "None", "bytes">>
        /\ Succeeded(u)

\* C10: no delay precedes the first attempt, the delay before retry k is
\* min(1.5 * 2^(k-1), 10.0) seconds, and a job that succeeds on its third
\* attempt has slept 1.5 + 3.0 seconds of backoff.
C10_BackoffDelays ==
    Created =>
        \A u \in Units :
            /\ \A k \in 1..Len(task[u].slept) :
                task[u].slept[k] = (IF 15 * 2^(k - 1) < 100 THEN 15 * 2^(k - 1) ELSE 100)
            /\ task[u].pc \in {"request", "read", "sleep"} =>
                Len(task[u].slept) = task[u].calls - 1
            /\ task[u].pc = "inner_wait" => Len(task[u].slept) = task[u].calls
            /\ (Len(task[u].log) = 3 /\ task[u].log[3] = "bytes") =>
                task[u].slept[1] + task[u].slept[2] >= 15 + 30

\* A job succeeded on its third attempt after sleeping 1.5 s and 3.0 s.
C10_Witness ==
    /\ Created
    /\ \E u \in Units :
        /\ Len(task[u].log) = 3 /\ task[u].log[3] = "bytes"
        /\ task[u].slept = <<15, 30>>

\* A step in which the body read of task u fails: the attempt that was reading
\* ends without a result.
BodyReadFails(u) ==
    /\ task[u].pc = "read"
    /\ ~task[u].must_cancel
    /\ task'[u].log = Append(task[u].log, "None")

BodyFailureIsAttemptFailure ==
    Created =>
        \A u \in Units :
            BodyReadFails(u) =>
                /\ files' = files
                /\ task'[u].outcome.kind # "returned"
                /\ IF Len(task[u].log) < 2
                   THEN /\ task'[u].pc = "sleep"
                        /\ task'[u].attempt = task[u].attempt + 1
                   ELSE /\ task'[u].pc = "done"
                        /\ task'[u].outcome.kind = "RuntimeError"

\* C11: a failure while reading the body after a successful status is a failed
\* attempt: nothing is saved, the job goes on to its next attempt if one
\* remains and fails otherwise, and what a successful job saved is always the
\* complete body of its last call.
C11_BodyFailureRetried ==
    /\ [][BodyFailureIsAttemptFailure]_vars
    /\ [](Created =>
            \A u \in Units :
                /\ \A k \in 1..Len(task[u].log) : task[u].log[k] \in {"None", "bytes"}
                /\ Succeeded(u) =>
                    /\ task[u].log[Len(task[u].log)] = "bytes"
                    /\ files[PromptKey(prompts[u])] =
                          [kind |-> "bytes", unit |-> u, call |-> task[u].calls]
                /\ ~Succeeded(u) => files[PromptKey(prompts[u])] = NoFile)

\* A job whose body read failed (request_sem released by line 219, attempt
\* without result) sleeps before its next attempt, nothing saved.
C11_Witness ==
    /\ Created
    /\ \E u \in Units :
        /\ task[u].pc = "sleep"
        /\ task[u].sem_released
        /\ task[u].log = <<"None">>
        /\ files[PromptKey(prompts[u])] = NoFile


(***************************************************************************)
(* Properties of ensure_running_container and _create_container.           *)
(***************************************************************************)
Deleted == {plane.deletes[i] : i \in DOMAIN plane.deletes}

\* ensure_running_container ran to a return statement.
Returned == er.pc = "returned"

\* C12: ensure_running_container returns a container only if it was listed
\* under the requested name with a non-empty URL and the health wait that
\* followed returned True; every other completed run returns None.
C12_ReturnsOnlyHealthy ==
    Returned =>
        /\ er.result # None =>
              /\ er.result = er.container
              /\ er.result.name = ContainerName
              /\ er.result.url # ""
              /\ er.healthy = "True"
              /\ plane.last_health = "200"
        /\ er.healthy # "True" => er.result = None

C12_Witness ==
    /\ Returned
    /\ er.result = [uid |-> "uid-2", name |-> ContainerName, url |-> "https://uid-2"]
    /\ plane.lists > 1
    /\ plane.health > 1

\* C13: when the health wait of a visible container gives up, it does so no
\* earlier than warmup_timeout after it began, exactly one delete is sent, for
\* the uid of that container, and None is returned whether or not the delete
\* failed.
C13_UnhealthyDeletedOnce ==
    er.healthy = "False" =>
        /\ IsVisible(er.container)
        /\ er.time_elapsed >= warmup_timeout
        /\ er.pc \in {"delete", "returned", "cancelled"}
        /\ plane.deletes = <<er.container.uid>>
        /\ Returned => er.result = None

C13_Witness ==
    /\ Returned
    /\ er.healthy = "False"
    /\ er.result = None
    /\ "delete" \in plane.failed
    /\ plane.last_health \in {"503", "ConnectError"}

\* C14: after a successful deploy, while no listing has shown the container
\* with a URL, no delete is sent and the health endpoint is not polled; the
\* visibility wait goes on until deploy_timeout has elapsed and no longer, and
\* ensure_running_container then returns None.
C14_NeverVisible ==
    ("deploy" \notin plane.failed /\ er.container = NoContainer) =>
        /\ plane.deletes = <<>>
        /\ plane.health = 0
        /\ er.pc = "list" => er.time_elapsed < deploy_timeout
        /\ er.pc = "visible_sleep" => now < er.deadline
        /\ Returned => er.result = None /\ now >= er.deadline

C14_Witness ==
    /\ Returned
    /\ "deploy" \notin plane.failed
    /\ er.container = NoContainer
    /\ er.result = None
    /\ plane.lists > 1

\* C15: when the deploy call fails with a control-plane error,
\* ensure_running_container returns None and no list poll, health poll or
\* delete is sent.
C15_DeployFailure ==
    "deploy" \in plane.failed =>
        /\ Returned
        /\ er.result = None
        /\ plane.lists = 0
        /\ plane.health = 0
        /\ plane.deletes = <<>>

C15_Witness ==
    /\ "deploy" \in plane.failed
    /\ Returned
    /\ cc.outcome = "RuntimeError"

\* C16: wait_for_healthy returns True on the first health poll answered with a
\* success (2xx) status.
C16_SuccessEndsWait ==
    plane.last_health \in {"200", "204"} => er.healthy = "True"

\* C17: when _create_container is interrupted while ensure_running_container
\* waits for the health of a visible container, a delete for its uid has been
\* sent by the time the interrupt is propagated.
C17_InterruptDeletes ==
    (cc.pc = "interrupted" /\ er.at \in {"health_get", "health_sleep"}) =>
        er.container.uid \in Deleted

\* C18: a control-plane failure of the deploy call or of a list poll makes
\* ensure_running_container return None, and never raise.
C18_FailuresAreNone ==
    /\ er.pc # "raised"
    /\ plane.failed \cap {"deploy", "list"} # {} => Returned /\ er.result = None

(***************************************************************************)
(* Properties of _parse_commitments.                                       *)
(***************************************************************************)
HotkeySet == {Hotkeys[k] : k \in DOMAIN Hotkeys}

BlockOf(h, i) == commitments[h][i][1]
Carried(h, i, field) == commitments[h][i][2][field]

\* The entries of h that are in the window, decode to an object and carry a
\* non-empty value of the field.
Carriers(h, field) ==
    {i \in DOMAIN commitments[h] :
        /\ InWindow(BlockOf(h, i))
        /\ commitments[h][i][2].json = "object"
        /\ Truthy(Carried(h, i, field))}

\* Those of them at the highest block.
TopCarriers(h, field) ==
    {i \in Carriers(h, field) : \A j \in Carriers(h, field) : BlockOf(h, j) <= BlockOf(h, i)}

FirstOf(S) == CHOOSE i \in S : \A j \in S : i <= j
LastOf(S) == CHOOSE i \in S : \A j \in S : j <= i

ReportedValue(record, field) ==
    CASE field = "commit" -> record.commit_hash
      [] field = "repo" -> record.repo
      [] field = "cdn_url" -> record.cdn_url

ReportedBlock(record, field) ==
    CASE field = "commit" -> record.commit_block
      [] field = "repo" -> record.repo_block
      [] field = "cdn_url" -> record.cdn_block

\* C19 as stated: every field some in-window decodable entry of an identity
\* carries is reported for that identity, with the value of a carrying entry of
\* the highest block.
C19_HighestBlockReported ==
    parsed.pc = "returned" =>
        \A h \in HotkeySet, field \in Fields :
            Carriers(h, field) # {} =>
                /\ h \in DOMAIN parsed.results
                /\ ReportedValue(parsed.results[h], field)
                       \in {Carried(h, i, field) : i \in TopCarriers(h, field)}

\* C19: when _parse_commitments returns, an identity with an in-window object
\* entry carrying a non-empty commit is reported, and each of its fields
\* independently has the value and block of the highest-block in-window object
\* entry carrying a non-empty value of that field (the first listed of them
\* when several share that block), or None when no entry carries it.
C19_HighestBlockPerField ==
    parsed.pc = "returned" =>
        \A h \in HotkeySet :
            Carriers(h, "commit") # {} =>
                /\ h \in DOMAIN parsed.results
                /\ \A field \in Fields :
                      LET record == parsed.results[h]
                          top == TopCarriers(h, field)
                      IN  IF top = {}
                          THEN /\ ReportedValue(record, field) = Null
                               /\ ReportedBlock(record, field) = NoLatest.block
                          ELSE /\ ReportedValue(record, field) = Carried(h, FirstOf(top), field)
                               /\ ReportedBlock(record, field) = BlockOf(h, FirstOf(top))

\* The higher block is listed first and a lower one, with another commit, after.
C19_Witness ==
    /\ parsed.pc = "returned"
    /\ Hotkeys[1] \in DOMAIN parsed.results
    /\ \E i, j \in Carriers(Hotkeys[1], "commit") :
          /\ i < j
          /\ BlockOf(Hotkeys[1], i) > BlockOf(Hotkeys[1], j)
          /\ Carried(Hotkeys[1], i, "commit") # Carried(Hotkeys[1], j, "commit")
          /\ parsed.results[Hotkeys[1]].commit_hash = Carried(Hotkeys[1], i, "commit")
    /\ Hotkeys[2] \in DOMAIN parsed.results
    /\ parsed.results[Hotkeys[2]].repo = "r1"

C21_PresentIffAnyField ==
    parsed.pc = "returned" =>
        \A h \in HotkeySet :
            h \in DOMAIN parsed.results <=> \E field \in Fields : Carriers(h, field) # {}

\* C21: when _parse_commitments returns, an identity is reported exactly when
\* some in-window object entry of it carries a non-empty commit, and its
\* record then has a value for every field some such entry carries and None
\* for the others.
C21_PresentIffCommit ==
    parsed.pc = "returned" =>
        \A h \in HotkeySet :
            /\ h \in DOMAIN parsed.results <=> Carriers(h, "commit") # {}
            /\ h \in DOMAIN parsed.results =>
                  /\ parsed.results[h].hotkey = h
                  /\ \A field \in Fields :
                        Truthy(ReportedValue(parsed.results[h], field))
                            <=> Carriers(h, field) # {}

\* One identity carries only a repo and is left out; the other is reported
\* with its commit and its repo.
C21_Witness ==
    /\ parsed.pc = "returned"
    /\ Carriers(Hotkeys[1], "repo") # {}
    /\ Carriers(Hotkeys[1], "commit") = {}
    /\ DOMAIN parsed.results = {Hotkeys[2]}
    /\ parsed.results[Hotkeys[2]].repo = "r1"
    /\ parsed.results[Hotkeys[2]].cdn_url = Null

\* The entries whose payload json.loads can decode.
Decodable(entries) == SelectSeq(entries, LAMBDA e : e[2].json # "malformed")

\* C22: a payload that fails to decode changes nothing: every identity
\* resolves as it would without its undecodable entries, and an identity all of
\* whose payloads are undecodable is not reported.
C22_MalformedSkipped ==
    parsed.pc # "idle" =>
        \A h \in HotkeySet :
            LET with == ScanEntries(commitments[h], 1, NoneYet)
                without == ScanEntries(Decodable(commitments[h]), 1, NoneYet)
            IN  /\ with = without
                /\ (parsed.pc = "returned" /\ h \in DOMAIN parsed.results) =>
                      parsed.results[h] = ResultRecord(h, without)
                /\ (parsed.pc = "returned" /\ Decodable(commitments[h]) = <<>>) =>
                      h \notin DOMAIN parsed.results

\* An undecodable in-window payload is listed before a commit of the same
\* identity, which is reported.
C22_Witness ==
    /\ parsed.pc = "returned"
    /\ Hotkeys[1] \in DOMAIN parsed.results
    /\ \E i, j \in DOMAIN commitments[Hotkeys[1]] :
          /\ i < j
          /\ commitments[Hotkeys[1]][i][2].json = "malformed"
          /\ InWindow(BlockOf(Hotkeys[1], i))
          /\ parsed.results[Hotkeys[1]].commit_hash = Carried(Hotkeys[1], j, "commit")

(***************************************************************************)
(* Properties of Judge.                                                    *)
(***************************************************************************)
\* Task u is inside "async with request_sem" (lines 164-168).
HoldsRequestSem(u) == duel[u].pc = "download"

\* Call d of task u waits for process_sem or has its request in flight.
AskPending(u, d) == duel[u].ask[d].pc \in {"wait", "flight"}

\* C23: a judge task ends in failure over a failed judge call only after that
\* call was requested max_attempts times.
C23_TransientRetried ==
    \A u \in Duels :
        duel[u].outcome = "APIError" =>
            \E d \in Positions :
                duel[u].ask[d].pc = "failed" /\ duel[u].ask[d].requests = max_attempts

\* C24: when judge has returned normally no judge call is waiting or in flight
\* and every slot of process_sem is free.
C24_ReturnLeavesNothing ==
    judge.pc = "returned" =>
        /\ \A u \in Duels, d \in Positions : ~AskPending(u, d)
        /\ judge_sem.process = JudgeProcessSlots

\* C25: a task waits for process_sem or holds it only while it holds
\* request_sem.
C25_OuterHeldWhileJudging ==
    \A u \in Duels, d \in Positions : AskPending(u, d) => HoldsRequestSem(u)

(***************************************************************************)
(* Properties of Generator over arbitrary prompt lists.                    *)
(***************************************************************************)
\* C26: no two distinct tasks of one batch write the same output file.
C26_OneWriterPerKey ==
    Created =>
      \A u, v \in Units :
        (u # v /\ IsDone(task[u]) /\ IsDone(task[v]) /\ Succeeded(u) /\ Succeeded(v)) =>
            PromptKey(prompts[u]) # PromptKey(prompts[v])

(***************************************************************************)
(* Properties of the commands.                                             *)
(***************************************************************************)
\* C27: a batch or container command whose run was interrupted by the user
\* exits with status 130.
C27_InterruptExits130 ==
    (cli.pc = "exited" /\ cli.interrupted) => cli.status = 130

\* How generate_all ended, for generate_cmd.
GenerateAllEnd ==
    IF gpc = "returned" THEN "returned"
    ELSE IF gpc = "cancelled" THEN "CancelledError"
    ELSE "Exception"

\* C28: once generate_all is over with a prompt whose generation failed, it
\* has raised and the generate command exits with a non-zero status.
C28_FailureExitsNonZero ==
    (/\ gpc \in {"returned", "raised_error"}
     /\ \E u \in Units : task[u].outcome.kind = "RuntimeError") =>
        /\ gpc = "raised_error"
        /\ CommandExit("generate", AsyncioRun(GenerateAllEnd)) # 0

\* The exception that made call k of task u fail (caught at line 238).
AttemptError(u, k) == [kind |-> "HTTPError", unit |-> u, call |-> k]

\* C29: the failure of a task whose attempts all failed carries the error of
\* its last attempt.
C29_FailureCarriesLastError ==
    Created =>
        \A u \in Units :
            task[u].outcome.kind = "RuntimeError" =>
                /\ "error" \in DOMAIN task[u].outcome
                /\ task[u].outcome.error = AttemptError(u, task[u].calls)

(***************************************************************************)
(* Properties of TargonClient.                                             *)
(***************************************************************************)
\* C30: delete_containers_by_name(name) deletes only containers listed with
\* exactly that name, and get_container(name) returns only such a container.
C30_ExactNameOnly ==
    /\ client.pc = "deleted" =>
          \A i \in DOMAIN client.deleted :
              \E k \in DOMAIN client.answer.containers :
                  /\ client.answer.containers[k].uid = client.deleted[i]
                  /\ client.answer.containers[k].name = client.name
    /\ (client.pc = "got" /\ client.got # NoContainer) => client.got.name = client.name

(***************************************************************************)
(* Properties of the preparation step and of the output file.              *)
(***************************************************************************)
\* The task failed in its download (lines 111-112).
DownloadFailed(u) == task[u].outcome.kind = "HTTPError"

\* C31: a task whose image download failed is done at once: it issued no
\* remote call, never asked for or held request_sem, slept no backoff, and
\* gave process_sem back.
C31_DownloadFailureIsImmediate ==
    Created =>
        \A u \in Units :
            DownloadFailed(u) =>
                /\ IsDone(task[u])
                /\ task[u].calls = 0
                /\ task[u].releases = 0
                /\ task[u].log = <<>>
                /\ task[u].slept = <<>>
                /\ task[u].holds = {}
                /\ u \notin request_sem.waiters
                /\ u \notin process_sem.waiters

\* A download failed while another task waited for process_sem or ran.
C31_Witness ==
    /\ Created
    /\ \E u, v \in Units :
          /\ DownloadFailed(u)
          /\ task[v].pc \in {"request", "read", "sleep"}

\* A step that writes the output file of this key (line 127).
WritesFile(key) == files'[key] # files[key]

\* The step that writes a file is the step of a task that holds process_sem,
\* whose attempt just returned a body, and the file is that body.
WriteIsBySuccessfulHolder ==
    Created =>
        \A key \in AllKeys :
            WritesFile(key) =>
                \E u \in Units :
                    /\ PromptKey(prompts[u]) = key
                    /\ "process" \in task[u].holds
                    /\ ~IsDone(task[u])
                    /\ task'[u].outcome.kind = "returned"
                    /\ task'[u].log[Len(task'[u].log)] = "bytes"
                    /\ files'[key] = [kind |-> "bytes", unit |-> u, call |-> task'[u].calls]

\* C33: the output file of a key is written only by a task that still holds
\* process_sem and whose generation just succeeded, with the bytes of the
\* successful attempt; a task that failed or was cancelled has written none.
C33_WriteOnlyAfterSuccess ==
    /\ [][WriteIsBySuccessfulHolder]_vars
    /\ [](Created =>
            \A u \in Units :
                (IsDone(task[u]) /\ ~Succeeded(u)) =>
                    files[PromptKey(prompts[u])] = NoFile)

\* One task wrote its file after a retry, another failed or was cancelled.
C33_Witness ==
    /\ Created
    /\ \E u, v \in Units :
          /\ Succeeded(u)
          /\ task[u].calls > 1
          /\ files[PromptKey(prompts[u])] =
                [kind |-> "bytes", unit |-> u, call |-> task[u].calls]
          /\ task[v].outcome.kind \in {"RuntimeError", "CancelledError"}
          /\ files[PromptKey(prompts[v])] = NoFile

(***************************************************************************)
(* Properties of the block window of _parse_commitments.                   *)
(***************************************************************************)
\* The blocks the entries of the requested round may have.
RoundWindow ==
    IF round_number <= current_round
    THEN schedule.earliest_reveal_block .. schedule.latest_reveal_block
    ELSE (schedule.latest_reveal_block + 1) .. MaxBlock

\* The mapping without the entries outside the window.
WindowOnly ==
    [h \in DOMAIN commitments |->
        SelectSeq(commitments[h], LAMBDA entry : entry[1] \in RoundWindow)]

\* C35: what _parse_commitments returns or raises is what it returns or raises
\* for the entries inside the window of the requested round alone: entries of
\* other blocks, whatever their payload, have no influence.
C35_WindowBeforeDecoding ==
    parsed.pc # "idle" => parsed = ParseOf(WindowOnly, 1, NoResults)

\* An entry outside the window that is not an object (parsed.get would raise)
\* or that carries a commit, next to an entry inside it whose commit is reported.
C35_Witness ==
    /\ parsed.pc = "returned"
    /\ Hotkeys[1] \in DOMAIN parsed.results
    /\ \E i, j \in DOMAIN commitments[Hotkeys[1]] :
          LET out == commitments[Hotkeys[1]][i]
              in == commitments[Hotkeys[1]][j]
          IN  /\ out[1] \notin RoundWindow
              /\ out[2].json = "array" \/ Truthy(out[2].commit)
              /\ in[1] \in RoundWindow
              /\ parsed.results[Hotkeys[1]].commit_hash = in[2].commit
              /\ parsed.results[Hotkeys[1]].commit_block = in[1]

\* The mapping in which only this hotkey has entries.
Alone(h) == [x \in DOMAIN commitments |-> IF x = h THEN commitments[h] ELSE <<>>]

\* C38: _parse_commitments completes for every mapping, and what it reports
\* for a hotkey is what it reports for that hotkey's entries alone.
C38_IdentitiesIsolated ==
    parsed.pc # "idle" =>
        /\ parsed.pc = "returned"
        /\ \A h \in DOMAIN commitments :
              LET alone == ParseOf(Alone(h), 1, NoResults).results
              IN  /\ h \in DOMAIN parsed.results <=> h \in DOMAIN alone
                  /\ h \in DOMAIN parsed.results => parsed.results[h] = alone[h]

(***************************************************************************)
(* Properties of the order of the control-plane calls.                     *)
(***************************************************************************)
\* The control-plane calls sent so far: deploys, list polls and deletes.
ControlCalls == <<plane.deploys, plane.lists, Len(plane.deletes)>>

\* One step of ensure_running_container keeps the order deploy, list polls,
\* at most one delete.
CallsInOrder ==
    /\ plane'.deploys # plane.deploys =>
          /\ ControlCalls = <<0, 0, 0>>
          /\ ControlCalls' = <<1, 0, 0>>
    /\ plane'.lists # plane.lists =>
          /\ plane.deploys = 1
          /\ "deploy" \notin plane'.failed
          /\ er.pc \in {"deploy", "list", "visible_sleep"}
          /\ plane'.lists = plane.lists + 1
          /\ plane'.deletes = <<>>
    /\ (plane'.deletes # plane.deletes /\ er'.pc = "delete") =>
          /\ plane.deletes = <<>>
          /\ plane.lists >= 1
          /\ "list" \notin plane.failed
          /\ IsVisible(er'.container)
          /\ plane'.deletes = <<er'.container.uid>>
          /\ er'.healthy = "False"
          /\ plane.last_health # "none"
    /\ er.pc = "delete" => ControlCalls' = ControlCalls

\* C36: in ensure_running_container exactly one deploy is sent and it is the
\* first call, list polls follow only a deploy that succeeded, a delete follows
\* only a list poll that returned the visible container and a health wait that
\* returned False, and nothing follows the delete.
C36_CallsInOrder ==
    /\ [][CallsInOrder]_vars
    /\ [](/\ er.pc # "idle" => plane.deploys = 1
          /\ er.pc = "idle" => ControlCalls = <<0, 0, 0>>
          /\ (er.pc \in {"returned", "raised"} /\ er.healthy = "False") =>
                plane.deletes = <<er.container.uid>>
          /\ (er.healthy # "False" /\ cc.pc \notin {"cleanup", "interrupted"}) =>
                plane.deletes = <<>>)

\* ensure_running_container returned after deploy, two list polls and a delete.
C36_Witness ==
    /\ er.pc = "returned"
    /\ er.healthy = "False"
    /\ ControlCalls = <<1, 2, 1>>

(***************************************************************************)
(* Properties of the results Judge saves.                                  *)
(***************************************************************************)
\* The task of judge for this prompt key.
DuelOf(key) == CHOOSE u \in Duels : judge.prompt_keys[u] = key

\* C34: when judge returns it has saved exactly one entry for each prompt key
\* with a file in both directories, each with an outcome among -1, 0 and 1; a
\* task that failed is saved as outcome 0 with the error marker; when judge is
\* cancelled nothing is saved.
C34_OneEntryPerJudgedKey ==
    /\ judge.pc = "returned" =>
          /\ judge.saved
          /\ DOMAIN judge.output =
                {key \in 1..MaxDuels : key \in judge.image_dir_1 /\ key \in judge.image_dir_2}
          /\ \A key \in DOMAIN judge.output :
                /\ judge.output[key].outcome \in {-1, 0, 1}
                /\ IF duel[DuelOf(key)].outcome = "DuelResult"
                   THEN ~judge.output[key].error
                   ELSE judge.output[key] = [outcome |-> 0, error |-> TRUE]
    /\ judge.pc # "returned" => (~judge.saved /\ judge.output = <<>>)

\* judge returned with one task that failed and one whose duel has a winner.
C34_Witness ==
    /\ judge.pc = "returned"
    /\ \E key, other \in DOMAIN judge.output :
          /\ duel[DuelOf(key)].outcome \in {"APIError", "HTTPStatusError"}
          /\ judge.output[key].error
          /\ judge.output[other].outcome # 0

\* Twice the averaged penalty of the left image and of the right image of a
\* task whose two calls were answered.
Left2(u) == duel[u].ask[1].answer.penalty_1 + duel[u].ask[2].answer.penalty_2
Right2(u) == duel[u].ask[1].answer.penalty_2 + duel[u].ask[2].answer.penalty_1

\* C40: the outcome of a duel is 0 iff the averaged penalties differ by at
\* most 1, -1 iff left < right - 1 and 1 otherwise; with the two images
\* exchanged (the judge answering each ordered pair as before, so the two
\* answers change places) the outcome is the negated one.
C40_OutcomeAntisymmetric ==
    \A u \in Duels :
        duel[u].outcome = "DuelResult" =>
            LET result_1 == duel[u].ask[1].answer
                result_2 == duel[u].ask[2].answer
                outcome == DuelEntry(duel[u]).outcome
            IN  /\ outcome = 0 <=> (Left2(u) - Right2(u) <= 2 /\ Right2(u) - Left2(u) <= 2)
                /\ outcome = -1 <=> Left2(u) < Right2(u) - 2
                /\ outcome = 1 <=> Left2(u) > Right2(u) + 2
                /\ DuelOutcome(result_2, result_1) = -outcome
                /\ judge.pc = "returned" => judge.output[judge.prompt_keys[u]].outcome = outcome

\* A saved duel the left image won by the smallest margin that is not a draw,
\* and one whose averaged penalties differ by exactly 1.
C40_Witness ==
    /\ judge.pc = "returned"
    /\ \E u, v \in Duels :
          /\ duel[u].outcome = "DuelResult"
          /\ Right2(u) - Left2(u) = 3
          /\ judge.output[judge.prompt_keys[u]].outcome = -1
          /\ duel[v].outcome = "DuelResult"
          /\ Left2(v) - Right2(v) = 2
          /\ judge.output[judge.prompt_keys[v]].outcome = 0

(***************************************************************************)
(* Properties of the reports of the commands.                              *)
(***************************************************************************)
\* C39: the judge command reports success only for a successful run: when it
\* exits with a failure status its output holds the failure report and no
\* success report.
C39_SuccessOnlyWhenSuccessful ==
    (cli.pc = "exited" /\ cli.command = "judge" /\ cli.status # 0) =>
        /\ \E i \in DOMAIN cli.output : cli.output[i] = "failure"
        /\ \A i \in DOMAIN cli.output : cli.output[i] # "success"

(***************************************************************************)
(* Properties of Renderer.                                                 *)
(***************************************************************************)
\* The step in which render is cancelled cancels every task that is not done.
CancelReachesEveryUnit ==
    (renderer.pc = "gather" /\ renderer'.pc = "cancelling") =>
        \A u \in RenderUnits : ~RenderDone(u) => renderer'.unit[u].must_cancel

\* C32: when render is cancelled while its gather is pending, every task that
\* is not done is cancelled, and when the cancellation leaves render every
\* task is done, the cancelled ones with CancelledError, and process_sem is
\* free.
C32_CancelJoinsUnits ==
    /\ [][CancelReachesEveryUnit]_vars
    /\ [](renderer.pc = "cancelled" =>
            /\ \A u \in RenderUnits :
                  /\ RenderDone(u)
                  /\ renderer.unit[u].must_cancel =>
                        renderer.unit[u].outcome = "CancelledError"
            /\ \E u \in RenderUnits : renderer.unit[u].must_cancel
            /\ renderer.process_sem = [value |-> RenderProcessSlots, waiters |-> <<>>])

\* The cancellation left render; it had reached one task in its POST and one
\* waiting for process_sem, after another task had finished.
C32_Witness ==
    /\ renderer.pc = "cancelled"
    /\ \E u, v, w \in RenderUnits :
          /\ renderer.unit[u].outcome = "CancelledError" /\ renderer.unit[u].at = "post"
          /\ renderer.unit[v].outcome = "CancelledError" /\ renderer.unit[v].at = "wait"
          /\ renderer.unit[w].outcome = "None"

====
